---- MODULE Spec2Model ----
(***************************************************************************)
(* A model of zippy, a ZIP archive reader and extractor: the end-of-       *)
(* central-directory locator, the central-directory entry parser, the     *)
(* data-descriptor resolver, the ZipCrypto stream cipher and the per-entry *)
(* extraction pipeline.                                                    *)
(*                                                                         *)
(* A u32 of the program is the pair <<hi, lo>> of its 16-bit halves (TLC's *)
(* integers are 32-bit signed, a u32 does not fit); a u16 and a u8 are     *)
(* naturals.  Byte strings are sequences of 0..255.                        *)
(***************************************************************************)
EXTENDS Integers, Sequences, FiniteSets, TLC

(***************************************************************************)
(* Fixed-width arithmetic.                                                 *)
(***************************************************************************)
\* Bit number i of a.
Bit(a, i) == (a \div (2 ^ i)) % 2
AndBit(a, b, i) == (Bit(a, i) * Bit(b, i)) * (2 ^ i)

\* Bitwise operations on u8 and u16 values: a | b is a + b - (a & b) and
\* a ^ b is a + b - 2 * (a & b).
And8(a, b) ==
    ((AndBit(a, b, 0) + AndBit(a, b, 1)) + (AndBit(a, b, 2) + AndBit(a, b, 3)))
        + ((AndBit(a, b, 4) + AndBit(a, b, 5)) + (AndBit(a, b, 6) + AndBit(a, b, 7)))
And16(a, b) == 256 * And8(a \div 256, b \div 256) + And8(a % 256, b % 256)
Xor8(a, b) == (a + b) - 2 * And8(a, b)
Xor16(a, b) == (a + b) - 2 * And16(a, b)
Or16(a, b) == (a + b) - And16(a, b)

\* u32 values as <<hi, lo>>.
U32FromU8(b) == <<0, b>>
Xor32(a, b) == <<Xor16(a[1], b[1]), Xor16(a[2], b[2])>>
\* a >> 8
Shr8(a) == <<a[1] \div 256, (a[1] % 256) * 256 + (a[2] \div 256)>>
\* (a & 0xFF) as u8
LowByte(a) == a[2] % 256
\* (a >> 24) as u8
HighByte(a) == a[1] \div 256
\* a as u16
LowHalf(a) == a[2]

\* The 32-bit product of two u16 values, as a u32.
Mul16(x, y) ==
    LET p0 == (x % 256) * y
        p1 == (x \div 256) * y
        s  == p0 + (p1 % 256) * 256
    IN  <<((s \div 65536) + (p1 \div 256)) % 65536, s % 65536>>

\* u32::wrapping_add
wrapping_add(a, b) ==
    LET lo == a[2] + b[2]
    IN  <<(a[1] + b[1] + (lo \div 65536)) % 65536, lo % 65536>>

\* u32::wrapping_mul
wrapping_mul(a, b) ==
    LET ll == Mul16(a[2], b[2])
        hl == Mul16(a[1], b[2])
        lh == Mul16(a[2], b[1])
    IN  <<(ll[1] + hl[2] + lh[2]) % 65536, ll[2]>>

\* u16::wrapping_mul
wrapping_mul16(x, y) == ((x % 256) * y + (((x \div 256) * y) % 256) * 256) % 65536

\* byteorder::LittleEndian::read_u16 / read_u32 over the first bytes of s.
read_u16(s) == s[1] + 256 * s[2]
read_u32(s) == <<s[3] + 256 * s[4], s[1] + 256 * s[2]>>

\* The value of a u32 below 2^31 as an integer.
ToInt(a) == a[1] * 65536 + a[2]
FitsInt(a) == a[1] < 32768
\* The u32 of a natural below 2^31.
FromInt(n) == <<n \div 65536, n % 65536>>

SubSeqFrom(s, from, n) == [i \in 1..n |-> s[from + i - 1]]

(***************************************************************************)
(* zip_crypto.rs: the ZipCrypto stream cipher.                             *)
(***************************************************************************)
PKZIP_KEY0_DEFAULT_VALUE == <<4660, 22136>>   \* 0x12345678
PKZIP_KEY1_DEFAULT_VALUE == <<9029, 26505>>   \* 0x23456789
PKZIP_KEY2_DEFAULT_VALUE == <<13398, 30864>>  \* 0x34567890
ZIP_CRYPTO_RANDOM_BYTES_LEN == 12
KEY1_MULTIPLIER == <<2056, 33797>>            \* 0x08088405

\* The table is indexed from 0 in the program and from 1 here.
PRE_CALCULATED_CRC_TABLE == <<
    <<0, 0>>, <<30471, 12438>>, <<60942, 24876>>, <<39177, 20922>>,
    <<1901, 50201>>, <<28778, 62607>>, <<59747, 42293>>, <<40548, 38307>>,
    <<3803, 34866>>, <<31196, 47268>>, <<57557, 59678>>, <<38866, 55688>>,
    <<2486, 19499>>, <<32433, 31933>>, <<59320, 11527>>, <<37055, 7569>>,
    <<7607, 4196>>, <<27312, 8434>>, <<62393, 29000>>, <<33982, 16862>>,
    <<6874, 54397>>, <<28125, 58603>>, <<62676, 46417>>, <<33747, 34247>>,
    <<4972, 38998>>, <<25707, 43200>>, <<64866, 63866>>, <<35429, 51692>>,
    <<5121, 23631>>, <<25350, 27865>>, <<64015, 15715>>, <<36104, 3573>>,
    <<15214, 8392>>, <<19561, 4190>>, <<54624, 16868>>, <<41575, 29042>>,
    <<15363, 58577>>, <<19204, 54343>>, <<53773, 34301>>, <<42250, 46443>>,
    <<13749, 43258>>, <<17074, 39020>>, <<56251, 51670>>, <<44220, 63808>>,
    <<13016, 27875>>, <<17887, 23669>>, <<56534, 3535>>, <<43985, 15705>>,
    <<9945, 12460>>, <<20958, 58>>, <<51415, 20864>>, <<49104, 24854>>,
    <<8628, 62645>>, <<22195, 50211>>, <<53178, 38297>>, <<47293, 42255>>,
    <<10242, 47262>>, <<24325, 34824>>, <<50700, 55730>>, <<45323, 59684>>,
    <<12143, 31879>>, <<22632, 19473>>, <<49505, 7595>>, <<46694, 11581>>,
    <<30428, 16784>>, <<475, 28934>>, <<39122, 8380>>, <<61397, 4138>>,
    <<29105, 34185>>, <<1718, 46367>>, <<40895, 58533>>, <<59576, 54323>>,
    <<30727, 51618>>, <<3840, 63796>>, <<38409, 43150>>, <<57614, 38936>>,
    <<32618, 3515>>, <<2157, 15661>>, <<37220, 27799>>, <<58979, 23553>>,
    <<27499, 20980>>, <<7276, 24930>>, <<34149, 12504>>, <<62050, 78>>,
    <<27654, 38381>>, <<6913, 42363>>, <<33288, 62657>>, <<62735, 50263>>,
    <<26032, 55750>>, <<4791, 59728>>, <<35774, 47338>>, <<64697, 34940>>,
    <<25309, 7647>>, <<5594, 11593>>, <<36051, 31987>>, <<64468, 19557>>,
    <<19890, 24920>>, <<15029, 20942>>, <<41916, 116>>, <<54459, 12514>>,
    <<19167, 42305>>, <<15832, 38359>>, <<42193, 50285>>, <<54230, 62715>>,
    <<17257, 59754>>, <<13422, 55804>>, <<44391, 34886>>, <<55904, 47312>>,
    <<17412, 11635>>, <<13059, 7653>>, <<43530, 19551>>, <<56589, 31945>>,
    <<20485, 28988>>, <<9986, 16810>>, <<48651, 4112>>, <<51468, 8326>>,
    <<22376, 46373>>, <<8303, 34227>>, <<47462, 54281>>, <<52833, 58527>>,
    <<24286, 63758>>, <<10713, 51608>>, <<45264, 38946>>, <<51159, 43188>>,
    <<22963, 15639>>, <<11956, 3457>>, <<47037, 23611>>, <<49338, 27821>>,
    <<60856, 33568>>, <<39615, 46006>>, <<950, 57868>>, <<29873, 53914>>,
    <<60117, 18233>>, <<40402, 30639>>, <<1243, 9749>>, <<29660, 5763>>,
    <<58211, 2834>>, <<37988, 15236>>, <<3437, 27198>>, <<31338, 23208>>,
    <<58382, 53003>>, <<37641, 65437>>, <<2560, 44583>>, <<32007, 40625>>,
    <<61455, 37700>>, <<34568, 41938>>, <<7681, 62056>>, <<26886, 49918>>,
    <<63330, 22365>>, <<32869, 26571>>, <<6508, 13937>>, <<28267, 1767>>,
    <<65236, 7030>>, <<35283, 11232>>, <<4314, 31322>>, <<26589, 19148>>,
    <<63929, 57199>>, <<36542, 61433>>, <<6071, 48707>>, <<24752, 36565>>,
    <<54998, 41960>>, <<41425, 37758>>, <<14552, 49860>>, <<20447, 62034>>,
    <<53691, 26609>>, <<42684, 22375>>, <<16309, 1757>>, <<18610, 13899>>,
    <<55309, 11226>>, <<44810, 6988>>, <<13827, 19190>>, <<16644, 31328>>,
    <<57184, 61379>>, <<43111, 57173>>, <<12654, 36591>>, <<18025, 48761>>,
    <<52065, 45964>>, <<48230, 33562>>, <<9583, 53920>>, <<21096, 57910>>,
    <<52236, 30613>>, <<47883, 18179>>, <<8706, 5817>>, <<21765, 9775>>,
    <<50618, 15294>>, <<45757, 2856>>, <<11188, 23186>>, <<23731, 27140>>,
    <<49879, 65447>>, <<46544, 53041>>, <<11481, 40587>>, <<23518, 44573>>,
    <<39780, 49840>>, <<60515, 61990>>, <<30058, 41884>>, <<621, 37642>>,
    <<39945, 1705>>, <<60174, 13887>>, <<29191, 26501>>, <<1280, 22291>>,
    <<38335, 19074>>, <<58040, 31252>>, <<31665, 11182>>, <<3254, 6968>>,
    <<37586, 36507>>, <<58837, 48653>>, <<31964, 61367>>, <<3035, 57121>>,
    <<34515, 53972>>, <<61908, 57922>>, <<26845, 46072>>, <<8154, 33646>>,
    <<33214, 5837>>, <<63161, 9819>>, <<28592, 30689>>, <<6327, 18295>>,
    <<34824, 23270>>, <<65295, 27248>>, <<26118, 15306>>, <<4353, 2908>>,
    <<36709, 40703>>, <<63586, 44649>>, <<24939, 65491>>, <<5740, 53061>>,
    <<40970, 57976>>, <<55053, 53998>>, <<19972, 33620>>, <<14595, 46018>>,
    <<42855, 9825>>, <<53344, 5879>>, <<18793, 18253>>, <<15982, 30683>>,
    <<44753, 27210>>, <<55766, 23260>>, <<16607, 2918>>, <<14296, 15344>>,
    <<43452, 44627>>, <<57019, 40645>>, <<18354, 53119>>, <<12469, 65513>>,
    <<48573, 61980>>, <<51898, 49802>>, <<21427, 37680>>, <<9396, 41894>>,
    <<47824, 13829>>, <<52695, 1683>>, <<21726, 22313>>, <<9177, 26559>>,
    <<45926, 31278>>, <<50273, 19128>>, <<23912, 6914>>, <<10863, 11156>>,
    <<46091, 48695>>, <<49932, 36513>>, <<23045, 57115>>, <<11522, 61325>>
>>

ZipCrypto_new ==
    [key0 |-> PKZIP_KEY0_DEFAULT_VALUE,
     key1 |-> PKZIP_KEY1_DEFAULT_VALUE,
     key2 |-> PKZIP_KEY2_DEFAULT_VALUE]

calculate_crc32(crc32, byte) ==
    Xor32(Shr8(crc32), PRE_CALCULATED_CRC_TABLE[Xor8(LowByte(crc32), byte) + 1])

\* key2 is advanced with the top byte of key1 as it was before the step.
update_keys_stale_key1(z, byte) ==
    LET k0 == calculate_crc32(z.key0, byte)
        k1 == wrapping_add(
                  wrapping_mul(wrapping_add(z.key1, U32FromU8(LowByte(k0))),
                               KEY1_MULTIPLIER),
                  U32FromU8(1))
        k2 == calculate_crc32(z.key2, HighByte(z.key1))
    IN  [key0 |-> k0, key1 |-> k1, key2 |-> k2]

update_keys(z, byte) ==
    LET k0 == calculate_crc32(z.key0, byte)
        k1 == wrapping_add(
                  wrapping_mul(wrapping_add(z.key1, U32FromU8(LowByte(k0))),
                               KEY1_MULTIPLIER),
                  U32FromU8(1))
        k2 == calculate_crc32(z.key2, HighByte(k1))
    IN  [key0 |-> k0, key1 |-> k1, key2 |-> k2]

\* The product is shifted before it is cut to 16 bits.
stream_byte_high_half(z) ==
    LET temp == Or16(LowHalf(z.key2), 3)
    IN  (Mul16(temp, Xor16(temp, 1))[1]) % 256

stream_byte(z) ==
    LET temp == Or16(LowHalf(z.key2), 3)
    IN  (wrapping_mul16(temp, Xor16(temp, 1)) \div 256) % 256

\* process_byte as it would be if it advanced the keys with its input byte.
process_byte_keyed_by_input(z, byte) ==
    LET cipher_byte == Xor8(stream_byte(z), byte)
    IN  [out |-> cipher_byte, z |-> update_keys(z, byte)]

\* process_byte as it would be if it left the keys as they were.
process_byte_keys_kept(z, byte) ==
    LET cipher_byte == Xor8(stream_byte(z), byte)
    IN  [out |-> cipher_byte, z |-> z]

\* The byte returned and the cipher state afterwards.
process_byte(z, byte) ==
    LET cipher_byte == Xor8(stream_byte(z), byte)
    IN  [out |-> cipher_byte, z |-> update_keys(z, cipher_byte)]

\* password.bytes().for_each(|byte| zip_crypto.update_keys(byte))
\* The bytes are taken in order, the first half before the second; the keys
\* after the first half are bound before the second half starts.
RECURSIVE update_keys_all(_, _)
update_keys_all(z, bytes) ==
    IF Len(bytes) > 1
    THEN CHOOSE r \in
             {update_keys_all(mid, SubSeq(bytes, Len(bytes) \div 2 + 1, Len(bytes))) :
                 mid \in {update_keys_all(z, SubSeq(bytes, 1, Len(bytes) \div 2))}} : TRUE
    ELSE IF Len(bytes) = 1 THEN update_keys(z, bytes[1]) ELSE z

\* iter_mut().for_each(|byte| *byte = zip_crypto.process_byte(*byte))
RECURSIVE process_bytes(_, _)
process_bytes(z, bytes) ==
    IF Len(bytes) > 1
    THEN CHOOSE r \in
             {[process_bytes(left.z, SubSeq(bytes, Len(bytes) \div 2 + 1, Len(bytes)))
                  EXCEPT !.out = left.out \o @] :
                 left \in {process_bytes(z, SubSeq(bytes, 1, Len(bytes) \div 2))}} : TRUE
    ELSE IF Len(bytes) = 1 THEN [process_byte(z, bytes[1]) EXCEPT !.out = <<@>>]
    ELSE [out |-> <<>>, z |-> z]

(***************************************************************************)
(* Readers.  A reader is [data, pos, limit]: the bytes of the source, the  *)
(* cursor, and the number of bytes it may still hand out (std::io::Take;   *)
(* a plain Cursor or BufReader is limited by the end of its data only).    *)
(***************************************************************************)
Min(a, b) == IF a < b THEN a ELSE b
Max(a, b) == IF a < b THEN b ELSE a

Cursor_new(data) == [data |-> data, pos |-> 0, limit |-> Len(data)]

\* The bytes a read can still return.
Available(rd) == Max(0, Min(rd.limit, Len(rd.data) - rd.pos))

\* Read::read returning n bytes (n <= Available(rd)).
reader_read(rd, n) ==
    [bytes |-> SubSeqFrom(rd.data, rd.pos + 1, n),
     rd    |-> [rd EXCEPT !.pos = @ + n, !.limit = @ - n]]

\* Read::read_exact: fails with UnexpectedEof, having consumed what was left.
read_exact(rd, n) ==
    IF Available(rd) >= n
    THEN [ok |-> TRUE] @@ reader_read(rd, n)
    ELSE [ok |-> FALSE] @@ reader_read(rd, Available(rd))

\* (file_crc32 >> 24) as u8, taken from the wrong end of the checksum.
crc32_low_order_byte(file_crc32) == LowByte(file_crc32)

crc32_high_order_byte(file_crc32) == HighByte(file_crc32)

\* ZipCryptoReader::new.  err is "" on Ok; on Err no reader value exists.
ZipCryptoReader_new(password, file_crc32, reader) ==
    LET salt == read_exact(reader, ZIP_CRYPTO_RANDOM_BYTES_LEN)
        with_keys(zip_crypto) ==
            LET decoded == process_bytes(zip_crypto, salt.bytes)
            IN  IF ~salt.ok
                THEN [err |-> "IOError", reader |-> salt.rd, zip_crypto |-> zip_crypto,
                      random_bytes |-> <<>>]
                ELSE IF crc32_high_order_byte(file_crc32) # decoded.out[12]
                THEN [err |-> "IncorrectPassword", reader |-> salt.rd,
                      zip_crypto |-> decoded.z, random_bytes |-> decoded.out]
                ELSE [err |-> "", reader |-> salt.rd, zip_crypto |-> decoded.z,
                      random_bytes |-> decoded.out]
    IN  CHOOSE r \in {with_keys(zip_crypto) :
                         zip_crypto \in {update_keys_all(ZipCrypto_new, password)}} : TRUE

\* impl Read for ZipCryptoReader: read, the inner reader returning n bytes.
ZipCryptoReader_read(zr, n) ==
    LET got == reader_read(zr.reader, n)
        decoded == process_bytes(zr.zip_crypto, got.bytes)
    IN  [bytes |-> decoded.out,
         zr |-> [reader |-> got.rd, zip_crypto |-> decoded.z]]

\* impl BufRead for ZipCryptoReader: fill_buf hands out the inner reader's
\* buffer, consume advances the inner reader.
ZipCryptoReader_fill_buf(zr) ==
    SubSeqFrom(zr.reader.data, zr.reader.pos + 1, Available(zr.reader))

ZipCryptoReader_consume(zr, amt) ==
    [zr EXCEPT !.reader = reader_read(zr.reader, amt).rd]

(***************************************************************************)
(* archive.rs: CRC-32 of the extracted bytes (crc crate, CRC_32_ISO_HDLC:  *)
(* reflected polynomial 0xEDB88320, initial value and final xor            *)
(* 0xFFFFFFFF), which is the checksum of the table above.                  *)
(***************************************************************************)
AllOnes32 == <<65535, 65535>>

digest_update_byte(crc, byte) ==
    Xor32(Shr8(crc), PRE_CALCULATED_CRC_TABLE[Xor8(LowByte(crc), byte) + 1])

RECURSIVE digest_update(_, _)
digest_update(crc, bytes) ==
    IF bytes = <<>> THEN crc
    ELSE digest_update(digest_update_byte(crc, Head(bytes)), Tail(bytes))

digest_finalize(crc) == Xor32(crc, AllOnes32)

\* calculate_crc32 over a file's contents, and the digest of
\* decode_and_write_deflated_compressed_data over the bytes it wrote.
Crc32Of(bytes) == digest_finalize(digest_update(AllOnes32, bytes))

(***************************************************************************)
(* flate2::bufread::DeflateDecoder over raw DEFLATE, modelled for stored   *)
(* blocks (BTYPE 00) and the reserved block type (BTYPE 11).  A Huffman    *)
(* block (BTYPE 01, 10) is "opaque": the decoder's outcome on it is not    *)
(* computed here and any outcome is allowed.  Input that ends inside a     *)
(* block ends the output without an error (the decoder's read returns 0 at *)
(* the end of its input).                                                  *)
(***************************************************************************)
RECURSIVE Inflate(_, _, _)
Inflate(s, out, used) ==
    IF s = <<>> THEN [status |-> "truncated", out |-> out, used |-> used]
    ELSE LET bfinal == s[1] % 2
             btype == (s[1] \div 2) % 4
         IN  IF btype = 3 THEN [status |-> "error", out |-> out, used |-> used + 1]
             ELSE IF btype # 0
             THEN [status |-> "opaque", out |-> out, used |-> used + Len(s)]
             ELSE IF Len(s) < 5
             THEN [status |-> "truncated", out |-> out, used |-> used + Len(s)]
             ELSE LET len == s[2] + 256 * s[3]
                      nlen == s[4] + 256 * s[5]
                      have == Min(len, Len(s) - 5)
                      data == SubSeqFrom(s, 6, have)
                  IN  IF len + nlen # 65535
                      THEN [status |-> "error", out |-> out, used |-> used + 5]
                      ELSE IF have < len
                      THEN [status |-> "truncated", out |-> out \o data,
                            used |-> used + Len(s)]
                      ELSE IF bfinal = 1
                      THEN [status |-> "end", out |-> out \o data,
                            used |-> used + 5 + len]
                      ELSE Inflate(SubSeqFrom(s, 6 + len, Len(s) - 5 - len),
                                   out \o data, used + 5 + len)

\* What an opaque block may decode to.
OpaqueOutputs == {<<>>, <<65>>}

\* The outcomes of inflating s: the DeflateDecodingError or "", the bytes
\* written, and the number of input bytes the decoder consumed.
InflateOutcomes(s) ==
    LET r == Inflate(s, <<>>, 0)
    IN  CASE r.status = "error" ->
                {[err |-> "DeflateDecodingError", out |-> r.out, used |-> r.used]}
          [] r.status = "opaque" ->
                {[err |-> "DeflateDecodingError", out |-> r.out, used |-> r.used]}
                    \cup {[err |-> "", out |-> r.out \o o, used |-> r.used] :
                            o \in OpaqueOutputs}
          [] OTHER -> {[err |-> "", out |-> r.out, used |-> r.used]}

\* The decoder is a function of its input: what it makes of an opaque block
\* is the same every time it is given that block.
OpaqueDecodings ==
    {[err |-> TRUE, out |-> <<>>]} \cup {[err |-> FALSE, out |-> o] : o \in OpaqueOutputs}

InflateDecided(s, opaque) ==
    LET r == Inflate(s, <<>>, 0)
    IN  IF r.status # "opaque" THEN InflateOutcomes(s)
        ELSE {o \in InflateOutcomes(s) :
                IF opaque.err THEN o.err # ""
                ELSE o.err = "" /\ o.out = r.out \o opaque.out}

(***************************************************************************)
(* std::path and std::fs on Unix.  A path is a byte string; the file       *)
(* system is keyed by the path's components with ".." resolved.            *)
(***************************************************************************)
Slash == 47
Dot == 46

is_absolute(p) == Len(p) > 0 /\ p[1] = Slash

\* PathBuf::push
PathBuf_push(buf, p) ==
    IF is_absolute(p) THEN p
    ELSE IF buf # <<>> /\ buf[Len(buf)] # Slash THEN buf \o <<Slash>> \o p
    ELSE buf \o p

RECURSIVE StripTrailingSlashes(_)
StripTrailingSlashes(p) ==
    IF Len(p) > 1 /\ p[Len(p)] = Slash
    THEN StripTrailingSlashes(SubSeq(p, 1, Len(p) - 1))
    ELSE p

\* The index of the last slash of p, 0 when there is none.
RECURSIVE LastSlash(_)
LastSlash(p) ==
    IF p = <<>> THEN 0
    ELSE IF p[Len(p)] = Slash THEN Len(p)
    ELSE LastSlash(SubSeq(p, 1, Len(p) - 1))

\* Path::parent: <<>> for None, <<parent>> for Some(parent).
Path_parent(p) ==
    LET q == StripTrailingSlashes(p)
        i == LastSlash(q)
    IN  IF q = <<>> \/ q = <<Slash>> THEN <<>>
        ELSE IF i = 0 THEN << <<>> >>
        ELSE IF i = 1 THEN << <<Slash>> >>
        ELSE << StripTrailingSlashes(SubSeq(q, 1, i - 1)) >>

\* The components of a path, ".." resolved against what precedes it.
RECURSIVE Components(_, _, _)
Components(p, cur, acc) ==
    LET done == IF cur = <<>> \/ cur = <<Dot>> THEN acc
                ELSE IF cur = <<Dot, Dot>>
                THEN (IF acc # <<>> /\ acc[Len(acc)] # <<Dot, Dot>>
                      THEN SubSeq(acc, 1, Len(acc) - 1)
                      ELSE Append(acc, cur))
                ELSE Append(acc, cur)
    IN  IF p = <<>> THEN done
        ELSE IF Head(p) = Slash THEN Components(Tail(p), <<>>, done)
        ELSE Components(Tail(p), Append(cur, Head(p)), acc)

\* The file-system key of a path: absolute or relative to the working
\* directory, and its resolved components (".." above the root is the root).
RECURSIVE DropLeadingParents(_)
DropLeadingParents(cs) ==
    IF cs # <<>> /\ Head(cs) = <<Dot, Dot>> THEN DropLeadingParents(Tail(cs)) ELSE cs

Key(p) ==
    LET cs == Components(p, <<>>, <<>>)
    IN  [abs |-> is_absolute(p),
         comps |-> IF is_absolute(p) THEN DropLeadingParents(cs) ELSE cs]

KeyParent(k) == [k EXCEPT !.comps = SubSeq(@, 1, Len(@) - 1)]
\* A key that has a parent directory entry below the root / working directory.
HasKeyParent(k) == k.comps # <<>> /\ k.comps[Len(k.comps)] # <<Dot, Dot>>

RECURSIVE KeyAncestors(_)
KeyAncestors(k) ==
    IF HasKeyParent(k) THEN {k} \cup KeyAncestors(KeyParent(k)) ELSE {k}

IsDir(fs, k) == k \in fs.dirs \/ ~HasKeyParent(k)
IsFile(fs, k) == k \in DOMAIN fs.files

\* Path::exists
Path_exists(fs, p) == p # <<>> /\ (IsDir(fs, Key(p)) \/ IsFile(fs, Key(p)))

\* std::fs::create_dir: the directory itself only, under an existing parent.
create_dir(fs, p) ==
    IF p = <<>> \/ IsFile(fs, Key(p)) \/ ~IsDir(fs, KeyParent(Key(p)))
    THEN [ok |-> FALSE, fs |-> fs]
    ELSE [ok |-> TRUE, fs |-> [fs EXCEPT !.dirs = @ \cup {Key(p)}]]

\* std::fs::create_dir_all
create_dir_all(fs, p) ==
    IF p = <<>> THEN [ok |-> TRUE, fs |-> fs]
    ELSE IF \E a \in KeyAncestors(Key(p)) : IsFile(fs, a)
    THEN [ok |-> FALSE, fs |-> fs]
    ELSE [ok |-> TRUE, fs |-> [fs EXCEPT !.dirs = @ \cup KeyAncestors(Key(p))]]

\* The destination is opened for writing without truncation, at its end.
File_create_appending(fs, p) ==
    LET k == Key(p)
    IN  IF p = <<>> \/ p[Len(p)] = Slash \/ ~HasKeyParent(k) \/ IsDir(fs, k)
           \/ ~IsDir(fs, KeyParent(k))
        THEN [ok |-> FALSE, fs |-> fs]
        ELSE [ok |-> TRUE,
              fs |-> [fs EXCEPT !.files =
                         [f \in DOMAIN fs.files \cup {k} |->
                             IF f \in DOMAIN fs.files THEN fs.files[f] ELSE <<>>]]]

\* File::create: creates or truncates.
File_create(fs, p) ==
    LET k == Key(p)
    IN  IF p = <<>> \/ p[Len(p)] = Slash \/ ~HasKeyParent(k) \/ IsDir(fs, k)
           \/ ~IsDir(fs, KeyParent(k))
        THEN [ok |-> FALSE, fs |-> fs]
        ELSE [ok |-> TRUE,
              fs |-> [fs EXCEPT !.files =
                         [f \in DOMAIN fs.files \cup {k} |-> IF f = k THEN <<>> ELSE fs.files[f]]]]

\* write_all on the created file.
File_write(fs, p, bytes) == [fs EXCEPT !.files[Key(p)] = @ \o bytes]
FileContents(fs, p) == fs.files[Key(p)]

(***************************************************************************)
(* headers.rs: the end of central directory record, the central directory  *)
(* records and the data descriptor.  A seekable source is [data, pos].     *)
(***************************************************************************)
MIN_EOF_CENTRAL_DIR_SIZE == 22
MIN_CENTRAL_DIR_SIZE == 46
EOF_CENTRAL_DIR_SIGN == <<1541, 19280>>   \* 0x06054b50
CENTRAL_DIR_SIGN == <<513, 19280>>        \* 0x02014b50
DATA_DESCRIPTOR_SIZE == 12
DATA_DESCRIPTOR_READ_FAILURE_EXIT_CODE == -4

\* enum CompressionMethod
NoCompression == <<"NoCompression">>
Deflate(mode) == <<"Deflate", mode>>

\* The reader a seekable source is at its cursor: bounded by its end only.
FileReader(src) == [data |-> src.data, pos |-> src.pos, limit |-> Len(src.data)]

\* Result<EndOfCentralDirectory, EndOfCentralDirectoryError>
EocdResult(kind, size, sign, central_dir_size, central_dir_start_offset) ==
    [kind |-> kind, size |-> size, sign |-> sign,
     central_dir_size |-> central_dir_size,
     central_dir_start_offset |-> central_dir_start_offset]
NoEocdResult == EocdResult("None", 0, <<0, 0>>, 0, <<0, 0>>)

\* The locator with the entry count examined before the signature.
EndOfCentralDirectory_count_first(data) ==
    LET size == Len(data)
        eof_central_dir_bytes ==
            SubSeqFrom(data, size - MIN_EOF_CENTRAL_DIR_SIZE + 1, MIN_EOF_CENTRAL_DIR_SIZE)
        sign == read_u32(SubSeqFrom(eof_central_dir_bytes, 1, 4))
        central_dir_size == eof_central_dir_bytes[11]
    IN  IF size < MIN_EOF_CENTRAL_DIR_SIZE
        THEN EocdResult("InvalidZipFile", size, <<0, 0>>, 0, <<0, 0>>)
        ELSE IF central_dir_size = 0
        THEN EocdResult("EmptyZipFile", 0, <<0, 0>>, 0, <<0, 0>>)
        ELSE IF sign # EOF_CENTRAL_DIR_SIGN
        THEN EocdResult("InvalidSignature", 0, sign, 0, <<0, 0>>)
        ELSE EocdResult("Ok", 0, <<0, 0>>, central_dir_size,
                        read_u32(SubSeqFrom(eof_central_dir_bytes, 17, 4)))

\* EndOfCentralDirectory::from_readable on a source holding data.
EndOfCentralDirectory_from_readable(data) ==
    LET size == Len(data)
        eof_central_dir_bytes ==
            SubSeqFrom(data, size - MIN_EOF_CENTRAL_DIR_SIZE + 1, MIN_EOF_CENTRAL_DIR_SIZE)
        sign == read_u32(SubSeqFrom(eof_central_dir_bytes, 1, 4))
        central_dir_size == eof_central_dir_bytes[11]
    IN  IF size < MIN_EOF_CENTRAL_DIR_SIZE
        THEN EocdResult("InvalidZipFile", size, <<0, 0>>, 0, <<0, 0>>)
        ELSE IF sign # EOF_CENTRAL_DIR_SIGN
        THEN EocdResult("InvalidSignature", 0, sign, 0, <<0, 0>>)
        ELSE IF central_dir_size = 0
        THEN EocdResult("EmptyZipFile", 0, <<0, 0>>, 0, <<0, 0>>)
        ELSE EocdResult("Ok", 0, <<0, 0>>, central_dir_size,
                        read_u32(SubSeqFrom(eof_central_dir_bytes, 17, 4)))

\* FileEnvironment::from_byte
FileEnvironment_from_byte(byte) ==
    CASE byte = 0  -> [ok |-> TRUE, environment |-> "MsDos"]
      [] byte = 3  -> [ok |-> TRUE, environment |-> "Unix"]
      [] byte = 6  -> [ok |-> TRUE, environment |-> "OS2"]
      [] byte = 7  -> [ok |-> TRUE, environment |-> "Macintosh"]
      [] byte = 10 -> [ok |-> TRUE, environment |-> "WindowsNTFS"]
      [] byte = 14 -> [ok |-> TRUE, environment |-> "FAT"]
      [] byte = 19 -> [ok |-> TRUE, environment |-> "OSX"]
      [] OTHER     -> [ok |-> FALSE, environment |-> "InvalidFileEnvironment"]

\* The year is kept in eight bits.
ZipDateTime_from_bytes_year_u8(date, time) ==
    [day    |-> And16(date, 31) % 256,
     month  |-> And16(date \div 32, 15) % 256,
     year   |-> ((date \div 512) + 1980) % 256,
     second |-> ((And16(time, 31) * 2) % 65536) % 256,
     min    |-> And16(time \div 32, 63) % 256,
     hour   |-> (time \div 2048) % 256]

\* ZipDateTime::from_bytes (date_time.rs)
ZipDateTime_from_bytes(date, time) ==
    [day    |-> And16(date, 31) % 256,
     month  |-> And16(date \div 32, 15) % 256,
     year   |-> ((date \div 512) + 1980) % 65536,
     second |-> ((And16(time, 31) * 2) % 65536) % 256,
     min    |-> And16(time \div 32, 63) % 256,
     hour   |-> (time \div 2048) % 256]

\* String::from_utf8: whether the bytes are well-formed UTF-8.
RECURSIVE is_utf8(_)
is_utf8(bytes) ==
    LET n == Len(bytes)
        b1 == bytes[1]
        cont(i) == i <= n /\ bytes[i] >= 128 /\ bytes[i] <= 191
    IN  IF n = 0 THEN TRUE
        ELSE IF b1 < 128 THEN is_utf8(SubSeq(bytes, 2, n))
        ELSE IF b1 >= 194 /\ b1 <= 223
        THEN cont(2) /\ is_utf8(SubSeq(bytes, 3, n))
        ELSE IF b1 >= 224 /\ b1 <= 239
        THEN /\ cont(2) /\ cont(3)
             /\ (b1 = 224 => bytes[2] >= 160)
             /\ (b1 = 237 => bytes[2] <= 159)
             /\ is_utf8(SubSeq(bytes, 4, n))
        ELSE IF b1 >= 240 /\ b1 <= 244
        THEN /\ cont(2) /\ cont(3) /\ cont(4)
             /\ (b1 = 240 => bytes[2] >= 144)
             /\ (b1 = 244 => bytes[2] <= 143)
             /\ is_utf8(SubSeq(bytes, 5, n))
        ELSE FALSE

\* file_name.ends_with("/")
ends_with_slash(file_name) == file_name # <<>> /\ file_name[Len(file_name)] = 47

\* The versions accepted without the legacy variant.
supported_zip_versions_without_legacy == {20, 30}

\* vec![0x14, 0x1E, 0x3F]
supported_zip_versions == {20, 30, 63}

\* The submode with the fallback arm taken for 0b11.
deflate_compression_mode_fallback(deflate_mode) ==
    CASE deflate_mode = 0 -> "Normal"
      [] deflate_mode = 1 -> "Maximum"
      [] deflate_mode = 2 -> "Fast"
      [] OTHER            -> "Normal"

\* match deflate_mode { 0b00 .. 0b11, _ }
deflate_compression_mode(deflate_mode) ==
    CASE deflate_mode = 0 -> "Normal"
      [] deflate_mode = 1 -> "Maximum"
      [] deflate_mode = 2 -> "Fast"
      [] deflate_mode = 3 -> "SuperFast"
      [] OTHER            -> "Normal"

\* (general_purpose_bit_flag & 0x0001) == 1
flag_is_encrypted(general_purpose_bit_flag) == And16(general_purpose_bit_flag, 1) = 1

\* The descriptor bit taken without its mask.
flag_data_descriptor_used_unmasked(general_purpose_bit_flag) ==
    (general_purpose_bit_flag \div 8) = 1

\* ((general_purpose_bit_flag >> 3) & 0x0001) == 1
flag_data_descriptor_used(general_purpose_bit_flag) ==
    And16(general_purpose_bit_flag \div 8, 1) = 1

\* Result<ZipFile, ZipFileError> and the cursor the call leaves.
NoZipFile == <<>>
ParseResult(kind, value, zip_file, pos) ==
    [kind |-> kind, value |-> value, zip_file |-> zip_file, pos |-> pos]
NoParseResult == ParseResult("None", 0, NoZipFile, 0)

\* The cursor is moved past the extra field only, not past the comment.
ZipFile_from_readable_comment_kept(src) ==
    LET head == read_exact(FileReader(src), MIN_CENTRAL_DIR_SIZE)
        central_dir_bytes == head.bytes
        sign == read_u32(SubSeqFrom(central_dir_bytes, 1, 4))
        zip_version == central_dir_bytes[5]
        environment == FileEnvironment_from_byte(central_dir_bytes[6])
        compression_method_bytes == read_u16(SubSeqFrom(central_dir_bytes, 11, 2))
        general_purpose_bit_flag == read_u16(SubSeqFrom(central_dir_bytes, 9, 2))
        is_encrypted == flag_is_encrypted(general_purpose_bit_flag)
        deflate_mode == And16(general_purpose_bit_flag \div 2, 3)
        compression_method ==
            IF compression_method_bytes = 0 THEN NoCompression
            ELSE Deflate(deflate_compression_mode(deflate_mode))
        data_descriptor_used == flag_data_descriptor_used(general_purpose_bit_flag)
        date == read_u16(SubSeqFrom(central_dir_bytes, 15, 2))
        time == read_u16(SubSeqFrom(central_dir_bytes, 13, 2))
        file_name_len == read_u16(SubSeqFrom(central_dir_bytes, 29, 2))
        extra_field_len == read_u16(SubSeqFrom(central_dir_bytes, 31, 2))
        comment_len == read_u16(SubSeqFrom(central_dir_bytes, 33, 2))
        name == read_exact(head.rd, file_name_len)
        file_name == name.bytes
        current_file_pos == name.rd.pos
        new_zip_file_pos == current_file_pos + extra_field_len
    IN  IF ~head.ok
        THEN ParseResult("IOError", 0, NoZipFile, head.rd.pos)
        ELSE IF sign # CENTRAL_DIR_SIGN
        THEN ParseResult("InvalidSignature", sign, NoZipFile, head.rd.pos)
        ELSE IF zip_version \notin supported_zip_versions
        THEN ParseResult("UnsupportedZipVersion", zip_version, NoZipFile, head.rd.pos)
        ELSE IF ~environment.ok
        THEN ParseResult("InvalidFileEnvironment", central_dir_bytes[6], NoZipFile,
                         head.rd.pos)
        ELSE IF compression_method_bytes \notin {0, 8}
        THEN ParseResult("UnsupportedCompression", compression_method_bytes, NoZipFile,
                         head.rd.pos)
        ELSE IF ~name.ok
        THEN ParseResult("IOError", 0, NoZipFile, name.rd.pos)
        ELSE IF ~is_utf8(file_name)
        THEN ParseResult("IOError", 0, NoZipFile, name.rd.pos)
        ELSE ParseResult("Ok", 0,
                 [offset |-> read_u32(SubSeqFrom(central_dir_bytes, 43, 4)),
                  environment |-> environment.environment,
                  is_encrypted |-> is_encrypted,
                  compression_method |-> compression_method,
                  data_descriptor_used |-> data_descriptor_used,
                  date_time |-> ZipDateTime_from_bytes(date, time),
                  crc32 |-> read_u32(SubSeqFrom(central_dir_bytes, 17, 4)),
                  compressed_size |-> read_u32(SubSeqFrom(central_dir_bytes, 21, 4)),
                  uncompressed_size |-> read_u32(SubSeqFrom(central_dir_bytes, 25, 4)),
                  file_name |-> file_name,
                  is_dir |-> ends_with_slash(file_name)],
                 new_zip_file_pos)

\* ZipFile::from_readable on a source at its cursor.
ZipFile_from_readable(src) ==
    LET head == read_exact(FileReader(src), MIN_CENTRAL_DIR_SIZE)
        central_dir_bytes == head.bytes
        sign == read_u32(SubSeqFrom(central_dir_bytes, 1, 4))
        zip_version == central_dir_bytes[5]
        environment == FileEnvironment_from_byte(central_dir_bytes[6])
        compression_method_bytes == read_u16(SubSeqFrom(central_dir_bytes, 11, 2))
        general_purpose_bit_flag == read_u16(SubSeqFrom(central_dir_bytes, 9, 2))
        is_encrypted == flag_is_encrypted(general_purpose_bit_flag)
        deflate_mode == And16(general_purpose_bit_flag \div 2, 3)
        compression_method ==
            IF compression_method_bytes = 0 THEN NoCompression
            ELSE Deflate(deflate_compression_mode(deflate_mode))
        data_descriptor_used == flag_data_descriptor_used(general_purpose_bit_flag)
        date == read_u16(SubSeqFrom(central_dir_bytes, 15, 2))
        time == read_u16(SubSeqFrom(central_dir_bytes, 13, 2))
        file_name_len == read_u16(SubSeqFrom(central_dir_bytes, 29, 2))
        extra_field_len == read_u16(SubSeqFrom(central_dir_bytes, 31, 2))
        comment_len == read_u16(SubSeqFrom(central_dir_bytes, 33, 2))
        name == read_exact(head.rd, file_name_len)
        file_name == name.bytes
        current_file_pos == name.rd.pos
        new_zip_file_pos == current_file_pos + extra_field_len + comment_len
    IN  IF ~head.ok
        THEN ParseResult("IOError", 0, NoZipFile, head.rd.pos)
        ELSE IF sign # CENTRAL_DIR_SIGN
        THEN ParseResult("InvalidSignature", sign, NoZipFile, head.rd.pos)
        ELSE IF zip_version \notin supported_zip_versions
        THEN ParseResult("UnsupportedZipVersion", zip_version, NoZipFile, head.rd.pos)
        ELSE IF ~environment.ok
        THEN ParseResult("InvalidFileEnvironment", central_dir_bytes[6], NoZipFile,
                         head.rd.pos)
        ELSE IF compression_method_bytes \notin {0, 8}
        THEN ParseResult("UnsupportedCompression", compression_method_bytes, NoZipFile,
                         head.rd.pos)
        ELSE IF ~name.ok
        THEN ParseResult("IOError", 0, NoZipFile, name.rd.pos)
        ELSE IF ~is_utf8(file_name)
        THEN ParseResult("IOError", 0, NoZipFile, name.rd.pos)
        ELSE ParseResult("Ok", 0,
                 [offset |-> read_u32(SubSeqFrom(central_dir_bytes, 43, 4)),
                  environment |-> environment.environment,
                  is_encrypted |-> is_encrypted,
                  compression_method |-> compression_method,
                  data_descriptor_used |-> data_descriptor_used,
                  date_time |-> ZipDateTime_from_bytes(date, time),
                  crc32 |-> read_u32(SubSeqFrom(central_dir_bytes, 17, 4)),
                  compressed_size |-> read_u32(SubSeqFrom(central_dir_bytes, 21, 4)),
                  uncompressed_size |-> read_u32(SubSeqFrom(central_dir_bytes, 25, 4)),
                  file_name |-> file_name,
                  is_dir |-> ends_with_slash(file_name)],
                 new_zip_file_pos)

\* The positions the two read_exact calls of from_readable take from the
\* source, in order: the fixed record and, when the checks pass, the name.
ZipFile_from_readable_reads(src) ==
    LET head == read_exact(FileReader(src), MIN_CENTRAL_DIR_SIZE)
        file_name_len == read_u16(SubSeqFrom(head.bytes, 29, 2))
        name == read_exact(head.rd, file_name_len)
        r == ZipFile_from_readable(src)
        named == r.kind = "Ok" \/ (r.kind = "IOError" /\ head.ok)
    IN  [i \in 1..Len(head.bytes) |-> src.pos + i - 1]
           \o (IF named THEN [i \in 1..Len(name.bytes) |-> head.rd.pos + i - 1] ELSE <<>>)

\* What update_with_data_descriptor leaves: the entry and the cursor when it
\* returns, a panic or the exit code when the process ends in it; sought
\* holds the offset it gave to seek, when it came to seek.
DescriptorOutcome(kind, code, zip_file, pos, sought) ==
    [kind |-> kind, code |-> code, zip_file |-> zip_file, pos |-> pos,
     sought |-> sought]

\* 2^32 - 12: subtracting 12 in wrapping u32 arithmetic.
MinusDescriptorSize == <<65535, 65536 - DATA_DESCRIPTOR_SIZE>>

\* The update with the two size fields taken in the other order.
update_with_data_descriptor_sizes_swapped(zip_file, src, descriptor_end_index, overflow_checks) ==
    LET underflow == descriptor_end_index[1] = 0
                        /\ descriptor_end_index[2] < DATA_DESCRIPTOR_SIZE
        start == wrapping_add(descriptor_end_index, MinusDescriptorSize)
        sought == [data |-> src.data,
                   pos |-> IF FitsInt(start) THEN ToInt(start) ELSE Len(src.data),
                   limit |-> IF FitsInt(start) THEN Len(src.data) ELSE 0]
        read_result == read_exact(sought, DATA_DESCRIPTOR_SIZE)
        data_descriptor_bytes == read_result.bytes
    IN  IF underflow /\ overflow_checks
        THEN DescriptorOutcome("Panic", 0, zip_file, src.pos, <<>>)
        ELSE IF ~read_result.ok
        THEN DescriptorOutcome("Exit", DATA_DESCRIPTOR_READ_FAILURE_EXIT_CODE, zip_file,
                               read_result.rd.pos, <<start>>)
        ELSE DescriptorOutcome("Ok", 0,
                 [zip_file EXCEPT
                    !.crc32 = read_u32(SubSeqFrom(data_descriptor_bytes, 1, 4)),
                    !.compressed_size = read_u32(SubSeqFrom(data_descriptor_bytes, 9, 4)),
                    !.uncompressed_size = read_u32(SubSeqFrom(data_descriptor_bytes, 5, 4))],
                 read_result.rd.pos, <<start>>)

\* ZipFile::update_with_data_descriptor.  overflow_checks is the build's
\* setting for integer overflow: a debug build panics on boundary < 12, a
\* release build wraps and seeks near 2^32.
update_with_data_descriptor(zip_file, src, descriptor_end_index, overflow_checks) ==
    LET underflow == descriptor_end_index[1] = 0
                        /\ descriptor_end_index[2] < DATA_DESCRIPTOR_SIZE
        start == wrapping_add(descriptor_end_index, MinusDescriptorSize)
        sought == [data |-> src.data,
                   pos |-> IF FitsInt(start) THEN ToInt(start) ELSE Len(src.data),
                   limit |-> IF FitsInt(start) THEN Len(src.data) ELSE 0]
        read_result == read_exact(sought, DATA_DESCRIPTOR_SIZE)
        data_descriptor_bytes == read_result.bytes
    IN  IF underflow /\ overflow_checks
        THEN DescriptorOutcome("Panic", 0, zip_file, src.pos, <<>>)
        ELSE IF ~read_result.ok
        THEN DescriptorOutcome("Exit", DATA_DESCRIPTOR_READ_FAILURE_EXIT_CODE, zip_file,
                               read_result.rd.pos, <<start>>)
        ELSE DescriptorOutcome("Ok", 0,
                 [zip_file EXCEPT
                    !.crc32 = read_u32(SubSeqFrom(data_descriptor_bytes, 1, 4)),
                    !.compressed_size = read_u32(SubSeqFrom(data_descriptor_bytes, 5, 4)),
                    !.uncompressed_size = read_u32(SubSeqFrom(data_descriptor_bytes, 9, 4))],
                 read_result.rd.pos, <<start>>)

(***************************************************************************)
(* archive.rs: ZipFile::extract.                                           *)
(***************************************************************************)
MIN_LOCAL_FILE_HEADER_SIZE == 30

NoResult == [kind |-> "None", expected |-> <<0, 0>>, actual |-> <<0, 0>>,
             cause |-> "", count |-> 0]
Ok == [NoResult EXCEPT !.kind = "Ok"]
Err(kind) == [NoResult EXCEPT !.kind = kind]
ErrCause(kind, cause) == [NoResult EXCEPT !.kind = kind, !.cause = cause]
\* The mismatch error with its two checksums in the other order.
InvalidExtractedFile_swapped(crc32, extracted_file_crc32) ==
    [NoResult EXCEPT !.kind = "InvalidExtractedFile", !.expected = extracted_file_crc32,
                     !.actual = crc32]

\* ExtractError::InvalidExtractedFile(crc32, created_file_crc32)
InvalidExtractedFile(crc32, extracted_file_crc32) ==
    [NoResult EXCEPT !.kind = "InvalidExtractedFile", !.expected = crc32,
                     !.actual = extracted_file_crc32]

\* extracted_file_path
ExtractedFilePath(base, entry) ==
    PathBuf_push(PathBuf_push(<<>>, base), entry.file_name)

\* The take view is one byte too long.
TakeLen_one_more(entry, extra_encryption_len) ==
    IF entry.compression_method = NoCompression
    THEN ToInt(entry.uncompressed_size) + extra_encryption_len + 1
    ELSE ToInt(entry.compressed_size) + extra_encryption_len + 1

\* The length given to take().
TakeLen(entry, extra_encryption_len) ==
    IF entry.compression_method = NoCompression
    THEN ToInt(entry.uncompressed_size) + extra_encryption_len
    ELSE ToInt(entry.compressed_size) + extra_encryption_len

\* The checksum comparison, made on the high half only.
checksums_differ_high_half(crc32, created_file_crc32) ==
    crc32[1] # created_file_crc32[1]

\* crc32 != created_file_crc32
checksums_differ(crc32, created_file_crc32) == crc32 # created_file_crc32

\* The source positions a read of n bytes at pos covers.
Positions(pos, n) == {pos + i : i \in 0..(n - 1)}

(***************************************************************************)
(* State.                                                                  *)
(***************************************************************************)
VARIABLES
    \* A ZipCryptoReader session (zip_crypto.rs)
    cr_password,      \* the password bytes
    cr_file_crc32,    \* the entry's CRC-32 given to ZipCryptoReader::new
    cr_reader,        \* the inner reader
    cr_zip_crypto,    \* the three keys
    cr_random_bytes,  \* the decoded 12-byte salt
    cr_result,        \* "NotStarted", "Ok", "IncorrectPassword", "IOError"
    cr_delivered,     \* the bytes the consumer has received so far
    cr_last,          \* the last process_byte call: input, output, keys
    \* An extraction run (archive.rs)
    zip_files,        \* the catalog's entries, in order
    extract_file,     \* the archive byte source: [data, pos]
    password,         \* Option<String>: <<>> is None, <<p>> is Some(p)
    verbose,
    extract_path,     \* the destination directory
    inflate_opaque,   \* what the inflater makes of a block the model cannot decode
    fs,               \* the file system: [dirs, files]
    stdout,           \* the lines printed
    ex_idx,           \* the index of the entry being extracted
    ex_pc,            \* the stage of that entry's extraction
    ex_take,          \* the limit left of the take view (file_data_reader)
    ex_zip_crypto,    \* the keys of that entry's ZipCryptoReader
    ex_consumer_in,   \* the bytes handed to the copy / to the inflater
    ex_crc32,         \* created_file_crc32
    ex_reads,         \* the source positions read during that entry
    ex_result,        \* the result of that entry's extract
    run_result,       \* the result of extract_items
    ex_prev,          \* what an earlier run over the same source left behind
    \* ZipDateTime::from_bytes (date_time.rs)
    dt_date,          \* the packed date
    dt_time,          \* the packed time
    dt_value,         \* the ZipDateTime returned
    \* A ZipCrypto value on its own (zip_crypto.rs)
    kz_password,      \* the password bytes to feed
    kz_fed,           \* how many of them update_keys has taken
    kz_state,         \* the three keys
    kz_byte,          \* what stream_byte returned, -1 before the call
    \* A ZIP writer's encryptor feeding process_byte (zip_crypto.rs)
    rt_password,      \* the password both sides start from
    rt_plain,         \* the bytes the writer has encrypted
    rt_cipher,        \* what it has stored for them
    rt_trail,         \* the writer's keys: at the start and after each byte
    rt_zip_crypto,    \* the reader's keys
    rt_decoded,       \* what process_byte has returned
    \* EndOfCentralDirectory::from_readable (headers.rs)
    loc_readable,     \* the source: [data, pos]
    loc_result,       \* the result of the call
    \* ZipFile::from_readable, called on one source in turn (headers.rs)
    pr_readable,      \* the source: [data, pos]
    pr_start,         \* the cursor when the last call began
    pr_count,         \* the calls made
    pr_result,        \* the result of the last call
    pr_reads,         \* the source positions the calls have read, in order
    \* ZipFile::update_with_data_descriptor (headers.rs)
    dd_readable,      \* the source: [data, pos]
    dd_descriptor_end_index,
    dd_before,        \* the entry before the call
    dd_zip_file,      \* the entry
    dd_outcome,       \* how the call ended
    \* The data descriptor pass of the catalog's construction
    rs_readable,      \* the source: [data, pos]
    rs_central_dir_start_offset,
    rs_parsed,        \* the entries as parsed
    rs_zip_files,     \* the entries
    rs_index,         \* the entry the pass is at
    rs_status         \* "Running", "Done", "Panic", "Exit"

cryptoVars == <<cr_password, cr_file_crc32, cr_reader, cr_zip_crypto,
                cr_random_bytes, cr_result, cr_delivered, cr_last>>

runInputs == <<zip_files, password, verbose, extract_path, inflate_opaque>>
extractVars == <<zip_files, extract_file, password, verbose, extract_path, inflate_opaque, fs,
                 stdout, ex_idx, ex_pc, ex_take, ex_zip_crypto, ex_consumer_in,
                 ex_crc32, ex_reads, ex_result, run_result>>

historyVars == <<ex_prev>>
dateTimeVars == <<dt_date, dt_time, dt_value>>
roundTripVars == <<rt_password, rt_plain, rt_cipher, rt_trail, rt_zip_crypto,
                   rt_decoded>>
keysVars == <<kz_password, kz_fed, kz_state, kz_byte, roundTripVars>>
locatorVars == <<loc_readable, loc_result>>
parserVars == <<pr_readable, pr_start, pr_count, pr_result, pr_reads>>
descriptorVars == <<dd_readable, dd_descriptor_end_index, dd_before, dd_zip_file,
                    dd_outcome>>
resolverVars == <<rs_readable, rs_central_dir_start_offset, rs_parsed, rs_zip_files,
                  rs_index, rs_status>>

vars == <<cryptoVars, extractVars, locatorVars, parserVars, descriptorVars,
          resolverVars, historyVars, dateTimeVars, keysVars>>

notCryptoVars == <<extractVars, locatorVars, parserVars, descriptorVars, resolverVars,
                   historyVars, dateTimeVars, keysVars>>
\* The stages of extract leave the record of the earlier run alone.
notExtractVars == <<cryptoVars, locatorVars, parserVars, descriptorVars, resolverVars,
                    historyVars, dateTimeVars, keysVars>>
notRunVars == <<cryptoVars, locatorVars, parserVars, descriptorVars, resolverVars,
                dateTimeVars, keysVars>>
notKeysVars == <<cryptoVars, extractVars, locatorVars, parserVars, descriptorVars,
                 resolverVars, historyVars, dateTimeVars>>
notDateTimeVars == <<cryptoVars, extractVars, locatorVars, parserVars, descriptorVars,
                     resolverVars, historyVars, keysVars>>
notLocatorVars == <<cryptoVars, extractVars, parserVars, descriptorVars, resolverVars,
                    historyVars, dateTimeVars, keysVars>>
notParserVars == <<cryptoVars, extractVars, locatorVars, descriptorVars, resolverVars,
                   historyVars, dateTimeVars, keysVars>>
notDescriptorVars == <<cryptoVars, extractVars, locatorVars, parserVars, resolverVars,
                       historyVars, dateTimeVars, keysVars>>
notResolverVars == <<cryptoVars, extractVars, locatorVars, parserVars, descriptorVars,
                     historyVars, dateTimeVars, keysVars>>
(***************************************************************************)
(* Bounds and inputs.                                                      *)
(***************************************************************************)
MaxPayload == 2   \* payload bytes after the salt
MaxChunk == 2     \* bytes returned by one read / consumed after one fill_buf

RECURSIVE SeqsUpTo(_, _)
SeqsUpTo(S, n) ==
    IF n = 0 THEN {<<>>}
    ELSE LET shorter == SeqsUpTo(S, n - 1)
         IN  shorter \cup {Append(s, x) : s \in {t \in shorter : Len(t) = n - 1}, x \in S}

\* "test" and "wrong_password" (zip_crypto.rs tests), and the empty password.
PasswordTest == <<116, 101, 115, 116>>
PasswordWrong == <<119, 114, 111, 110, 103, 95, 112, 97, 115, 115, 119, 111, 114, 100>>
Passwords == {PasswordTest, PasswordWrong, <<>>}

\* The salt of the tests: CA 2D 1D 27 19 19 63 43 77 9A 71 76.
TestSalt == <<202, 45, 29, 39, 25, 25, 99, 67, 119, 154, 113, 118>>
\* 0x5579202F (the tests), 0xF8000055, 0x2F792055
TestCrc == <<21881, 8239>>
FileCrcs == {TestCrc, <<63488, 85>>, <<12153, 8277>>}
PayloadBytes == {0, 90, 255}

CryptoSources ==
    {TestSalt \o p : p \in SeqsUpTo(PayloadBytes, MaxPayload)}
        \cup {SubSeq(TestSalt, 1, 11), <<>>}

NoCall == [valid |-> FALSE, in |-> 0, out |-> 0,
           before |-> ZipCrypto_new, after |-> ZipCrypto_new]

\* The record of the last process_byte call made while decoding bytes from z.
LastCall(z, bytes) ==
    LET n == Len(bytes)
        pre == process_bytes(z, SubSeq(bytes, 1, n - 1))
        last == process_byte(pre.z, bytes[n])
    IN  [valid |-> TRUE, in |-> bytes[n], before |-> pre.z, out |-> last.out,
         after |-> last.z]


(***************************************************************************)
(* Inputs of an extraction run: archives laid out as a ZIP writer lays     *)
(* them out (local header, name, extra field, payload), with the entry     *)
(* list a catalog would hold for them.                                     *)
(***************************************************************************)
MaxPlain == 2     \* bytes of an entry's content
PlainBytes == {65, 66}
Plains == SeqsUpTo(PlainBytes, MaxPlain)

NameA == <<97>>               \* "a"
NameDA == <<100, 47, 97>>     \* "d/a"
NameD == <<100, 47>>          \* "d/"
NameRootA == <<47, 97>>       \* "/a"
BaseDir == <<111>>            \* "o"

\* A raw DEFLATE stream of one final stored block.
StoredDeflate(plain) == <<1, Len(plain), 0, 255 - Len(plain), 255>> \o plain

\* The ZipCrypto encryptor of a ZIP writer.
encrypt_byte(z, byte) ==
    [out |-> Xor8(stream_byte(z), byte), z |-> update_keys(z, byte)]

RECURSIVE encrypt_from(_, _)
encrypt_from(z, bytes) ==
    IF Len(bytes) > 1
    THEN CHOOSE r \in
             {[encrypt_from(left.z, SubSeq(bytes, Len(bytes) \div 2 + 1, Len(bytes)))
                  EXCEPT !.out = left.out \o @] :
                 left \in {encrypt_from(z, SubSeq(bytes, 1, Len(bytes) \div 2))}} : TRUE
    ELSE IF Len(bytes) = 1 THEN [encrypt_byte(z, bytes[1]) EXCEPT !.out = <<@>>]
    ELSE [out |-> <<>>, z |-> z]

encrypt_bytes(z, bytes) == encrypt_from(z, bytes).out

WriterSalt == <<1, 2, 3, 4, 5, 6, 7, 8, 9, 10, 11>>
ArchivePassword == PasswordTest
PasswordOther == <<116, 101, 115, 115>>   \* "tess"

Zeros(n) == [i \in 1..n |-> 0]
LOCAL_FILE_HEADER_SIGN == <<80, 75, 3, 4>>
LocalHeader(name_len, extra_len) ==
    LOCAL_FILE_HEADER_SIGN \o Zeros(22)
        \o <<name_len % 256, name_len \div 256, extra_len % 256, extra_len \div 256>>

FlipLast(bytes) ==
    IF bytes = <<>> THEN bytes
    ELSE [bytes EXCEPT ![Len(bytes)] = Xor8(@, 1)]

\* The writer's keys after its password.
WriterKeys == update_keys_all(ZipCrypto_new, ArchivePassword)

\* What the writer stores for an entry described by
\* [name, method, enc, plain, extra_len, corrupt]; corrupt tells which part
\* was altered afterwards: the crc32 field, the last payload byte, or the
\* uncompressed size field (one more than the content has).
EntryStream(p) == IF p.method = "Deflate" THEN StoredDeflate(p.plain) ELSE p.plain
EntryCrc(p) == Crc32Of(p.plain)
EntryPayload(p) ==
    LET stream == EntryStream(p)
        stored == IF p.enc = "ZipCrypto"
                  THEN encrypt_bytes(WriterKeys,
                                     WriterSalt \o <<HighByte(EntryCrc(p))>> \o stream)
                  ELSE stream
    IN  IF p.corrupt = "payload" THEN FlipLast(stored) ELSE stored

EntryOf(p, offset) ==
    [offset |-> FromInt(offset),
     file_name |-> p.name,
     is_dir |-> p.name # <<>> /\ p.name[Len(p.name)] = Slash,
     compression_method |-> IF p.method = "Deflate" THEN Deflate("Normal")
                            ELSE NoCompression,
     encryption_method |-> p.enc,
     crc32 |-> IF p.corrupt = "crc"
               THEN Xor32(EntryCrc(p), <<0, 1>>) ELSE EntryCrc(p),
     compressed_size |-> FromInt(Len(EntryStream(p))),
     uncompressed_size |-> FromInt(IF p.corrupt = "size" THEN Len(p.plain) + 1
                                   ELSE Len(p.plain))]

RECURSIVE BuildArchive(_, _, _)
BuildArchive(params, data, entries) ==
    IF params = <<>> THEN [data |-> data, entries |-> entries]
    ELSE LET p == Head(params)
         IN  BuildArchive(Tail(params),
                          data \o LocalHeader(Len(p.name), p.extra_len) \o p.name
                               \o [i \in 1..p.extra_len |-> 238] \o EntryPayload(p),
                          Append(entries, EntryOf(p, Len(data))))

EntryParams ==
    {p \in [name : {NameA}, method : {"NoCompression", "Deflate"},
            enc : {"NoEncryption", "ZipCrypto"}, plain : Plains,
            extra_len : {0, 2}, corrupt : {"none", "crc", "payload"}] :
        /\ p.extra_len = 2 => (p.corrupt = "none" /\ p.enc = "NoEncryption")
        /\ p.enc = "ZipCrypto" => \A i \in 1..Len(p.plain) : p.plain[i] = 64 + i}

DirParams == [name |-> NameD, method |-> "NoCompression", enc |-> "NoEncryption",
              plain |-> <<>>, extra_len |-> 0, corrupt |-> "none"]
\* A directory entry whose flag says encrypted.
EncDirParams == [DirParams EXCEPT !.enc = "ZipCrypto"]
AesParams == [name |-> NameA, method |-> "NoCompression", enc |-> "Aes",
              plain |-> <<65>>, extra_len |-> 0, corrupt |-> "none"]
GoodParams(name, method, enc) ==
    [name |-> name, method |-> method, enc |-> enc, plain |-> <<65>>,
     extra_len |-> 0, corrupt |-> "none"]

Archives ==
    {<<p>> : p \in EntryParams \cup {DirParams, AesParams, EncDirParams}}
        \cup {<<DirParams, GoodParams(NameDA, m, "NoEncryption")>> :
                m \in {"NoCompression", "Deflate"}}
        \cup {<<[GoodParams(NameA, "NoCompression", "NoEncryption") EXCEPT !.corrupt = c],
                GoodParams(NameDA, "NoCompression", "ZipCrypto")>> :
                c \in {"none", "crc"}}
        \cup {<<GoodParams(NameA, "NoCompression", "ZipCrypto"),
                GoodParams(NameDA, "NoCompression", "ZipCrypto")>>}
        \cup {<<GoodParams(NameRootA, "NoCompression", "NoEncryption")>>}
        \cup {<<[GoodParams(NameA, m, "NoEncryption") EXCEPT !.corrupt = "size"]>> :
                m \in {"NoCompression", "Deflate"}}

\* A stored entry with nothing in it.
EmptyParams == [GoodParams(NameA, "NoCompression", "NoEncryption") EXCEPT !.plain = <<>>]

\* A run whose source is cut ends inside the first local file header.  A
\* run whose source is shifted has one byte in front of the archive that
\* the catalog's offsets do not count (a stub put before a finished archive).
Runs ==
    {r \in [archive : Archives, password : {<<>>, <<ArchivePassword>>, <<PasswordOther>>},
            verbose : BOOLEAN, cut : BOOLEAN, shifted : BOOLEAN] :
        /\ r.cut => /\ r.archive = <<GoodParams(NameA, "NoCompression", "NoEncryption")>>
                    /\ ~r.verbose
                    /\ ~r.shifted
        /\ r.shifted => /\ r.archive \in {<<GoodParams(NameA, "NoCompression", "NoEncryption")>>,
                                           <<EmptyParams>>}
                        /\ ~r.verbose
        /\ (\A i \in 1..Len(r.archive) : r.archive[i].enc # "ZipCrypto")
              => r.password = <<>>
        /\ r.verbose => \A i \in 1..Len(r.archive) :
                            r.archive[i].corrupt = "none" /\ r.archive[i].extra_len = 0
                            /\ r.archive[i].enc # "ZipCrypto"}
(***************************************************************************)
(* The ZipCryptoReader session.                                            *)
(***************************************************************************)
InitCryptoSession ==
    /\ cr_password \in Passwords
    /\ cr_file_crc32 \in FileCrcs
    /\ cr_reader \in {Cursor_new(d) : d \in CryptoSources}
    /\ cr_zip_crypto = ZipCrypto_new
    /\ cr_random_bytes = <<>>
    /\ cr_result = "NotStarted"
    /\ cr_delivered = <<>>
    /\ cr_last = NoCall

CryptoNew ==
    /\ cr_result = "NotStarted"
    /\ LET r == ZipCryptoReader_new(cr_password, cr_file_crc32, cr_reader)
       IN  /\ cr_result' = IF r.err = "" THEN "Ok" ELSE r.err
           /\ cr_reader' = r.reader
           /\ cr_zip_crypto' = r.zip_crypto
           /\ cr_random_bytes' = r.random_bytes
           /\ \E keys \in {update_keys_all(ZipCrypto_new, cr_password)} :
                cr_last' = IF r.err = "IOError" THEN NoCall
                           ELSE LastCall(keys, SubSeq(cr_reader.data, 1,
                                                      ZIP_CRYPTO_RANDOM_BYTES_LEN))
    /\ UNCHANGED <<cr_password, cr_file_crc32, cr_delivered>>
    /\ UNCHANGED notCryptoVars

\* The consumer pulls with Read::read.
CryptoRead ==
    /\ cr_result = "Ok"
    /\ \E n \in 1..Min(MaxChunk, Available(cr_reader)) :
         LET zr == [reader |-> cr_reader, zip_crypto |-> cr_zip_crypto]
             r == ZipCryptoReader_read(zr, n)
         IN  /\ cr_reader' = r.zr.reader
             /\ cr_zip_crypto' = r.zr.zip_crypto
             /\ cr_delivered' = cr_delivered \o r.bytes
             /\ cr_last' = LastCall(cr_zip_crypto,
                                    SubSeqFrom(cr_reader.data, cr_reader.pos + 1, n))
    /\ UNCHANGED <<cr_password, cr_file_crc32, cr_random_bytes, cr_result>>
    /\ UNCHANGED notCryptoVars

\* The consumer pulls with BufRead::fill_buf and consume.
CryptoFillBufConsume ==
    /\ cr_result = "Ok"
    /\ LET zr == [reader |-> cr_reader, zip_crypto |-> cr_zip_crypto]
           buf == ZipCryptoReader_fill_buf(zr)
       IN  \E amt \in 1..Min(MaxChunk, Len(buf)) :
             LET after == ZipCryptoReader_consume(zr, amt)
             IN  /\ cr_reader' = after.reader
                 /\ cr_zip_crypto' = after.zip_crypto
                 /\ cr_delivered' = cr_delivered \o SubSeq(buf, 1, amt)
    /\ UNCHANGED <<cr_password, cr_file_crc32, cr_random_bytes, cr_result, cr_last>>
    /\ UNCHANGED notCryptoVars

NextCrypto == CryptoNew \/ CryptoRead \/ CryptoFillBufConsume

(***************************************************************************)
(* The extraction run: extract_items calls extract for each entry in       *)
(* order; extract advances through its stages.                             *)
(***************************************************************************)
\* No earlier run.
NoRun == [kind |-> "None", result |-> NoResult, fs |-> [dirs |-> {}, files |-> <<>>],
          pos |-> 0, stdout |-> <<>>]
\* ZipDateTime::from_bytes was not called yet.
NoDateTime == [day |-> 0, month |-> 0, year |-> 0, second |-> 0, min |-> 0, hour |-> 0]

Entry == zip_files[ex_idx]
DestPath == ExtractedFilePath(extract_path, Entry)
\* file_data_reader: the take view of the source.
TakeReader == [data |-> extract_file.data, pos |-> extract_file.pos, limit |-> ex_take]

InitExtract ==
    /\ \E r \in Runs :
         LET a == BuildArchive(r.archive, <<>>, <<>>)
         IN  /\ zip_files = a.entries
             /\ extract_file = [data |-> IF r.cut
                                          THEN SubSeq(a.data, 1, MIN_LOCAL_FILE_HEADER_SIZE - 1)
                                          ELSE IF r.shifted THEN <<0>> \o a.data
                                          ELSE a.data,
                                 pos |-> 0]
             /\ password = r.password
             /\ verbose = r.verbose
    /\ extract_path = BaseDir
    /\ inflate_opaque \in OpaqueDecodings
    /\ fs = [dirs |-> {}, files |-> <<>>]
    /\ stdout = <<>>
    /\ ex_idx = 1
    /\ ex_pc = "Pending"
    /\ ex_take = 0
    /\ ex_zip_crypto = ZipCrypto_new
    /\ ex_consumer_in = <<>>
    /\ ex_crc32 = <<0, 0>>
    /\ ex_reads = {}
    /\ ex_result = NoResult
    /\ run_result = NoResult
    /\ ex_prev = NoRun

\* A failed entry is tried again.
Fail_retries(result) ==
    /\ ex_pc' = "Pending"
    /\ ex_result' = result

Fail(result) ==
    /\ ex_pc' = "Failed"
    /\ ex_result' = result

\* A verbose run reports a directory and leaves it at that.
ExtractBegin_verbose_returns_early ==
    /\ run_result.kind = "None"
    /\ ex_pc = "Pending"
    /\ stdout' = IF verbose THEN Append(stdout, DestPath) ELSE stdout
    /\ IF Entry.is_dir /\ verbose
       THEN fs' = fs /\ ex_pc' = "Created" /\ ex_result' = Ok
       ELSE IF Entry.is_dir
       THEN LET made == create_dir_all(fs, DestPath)
            IN  /\ fs' = made.fs
                /\ IF made.ok
                   THEN ex_pc' = "Created" /\ ex_result' = Ok
                   ELSE Fail(Err("IOError"))
       ELSE LET parent == Path_parent(DestPath)
            IN  IF parent = <<>>
                THEN fs' = fs /\ Fail(Err("InvalidZipFileParent"))
                ELSE LET made == IF ~Path_exists(fs, parent[1])
                                 THEN create_dir_all(fs, parent[1])
                                 ELSE [ok |-> TRUE, fs |-> fs]
                         created == File_create(made.fs, DestPath)
                     IN  IF ~made.ok
                         THEN fs' = fs /\ Fail(Err("IOError"))
                         ELSE IF ~created.ok
                         THEN fs' = made.fs /\ Fail(Err("UnableToCreateExtractedFile"))
                         ELSE /\ fs' = created.fs
                              /\ ex_pc' = "FileCreated"
                              /\ ex_result' = ex_result
    /\ UNCHANGED <<runInputs, extract_file, ex_idx, ex_take, ex_zip_crypto,
                   ex_consumer_in, ex_crc32, ex_reads, run_result>>
    /\ UNCHANGED notExtractVars

\* archive.rs:86-114: the destination path, the directory case, the parent
\* directory and the destination file.
ExtractBegin ==
    /\ run_result.kind = "None"
    /\ ex_pc = "Pending"
    /\ stdout' = IF verbose THEN Append(stdout, DestPath) ELSE stdout
    /\ IF Entry.is_dir
       THEN LET made == create_dir_all(fs, DestPath)
            IN  /\ fs' = made.fs
                /\ IF made.ok
                   THEN ex_pc' = "Created" /\ ex_result' = Ok
                   ELSE Fail(Err("IOError"))
       ELSE LET parent == Path_parent(DestPath)
            IN  IF parent = <<>>
                THEN fs' = fs /\ Fail(Err("InvalidZipFileParent"))
                ELSE LET made == IF ~Path_exists(fs, parent[1])
                                 THEN create_dir_all(fs, parent[1])
                                 ELSE [ok |-> TRUE, fs |-> fs]
                         created == File_create(made.fs, DestPath)
                     IN  IF ~made.ok
                         THEN fs' = fs /\ Fail(Err("IOError"))
                         ELSE IF ~created.ok
                         THEN fs' = made.fs /\ Fail(Err("UnableToCreateExtractedFile"))
                         ELSE /\ fs' = created.fs
                              /\ ex_pc' = "FileCreated"
                              /\ ex_result' = ex_result
    /\ UNCHANGED <<runInputs, extract_file, ex_idx, ex_take, ex_zip_crypto,
                   ex_consumer_in, ex_crc32, ex_reads, run_result>>
    /\ UNCHANGED notExtractVars

\* archive.rs:115-147: the local file header, the skip over name and extra
\* field, and the take view.
ReadLocalHeader ==
    /\ run_result.kind = "None"
    /\ ex_pc = "FileCreated"
    /\ LET sought == [data |-> extract_file.data, pos |-> ToInt(Entry.offset),
                      limit |-> Len(extract_file.data)]
           header == read_exact(sought, MIN_LOCAL_FILE_HEADER_SIZE)
           file_name_len == Len(Entry.file_name)
           extra_field_len == read_u16(SubSeqFrom(header.bytes, 29, 2))
           file_bytes_start_offset == file_name_len + extra_field_len
       IN  /\ ex_reads' = ex_reads \cup Positions(sought.pos, Len(header.bytes))
           /\ IF ~header.ok
              THEN /\ extract_file' = [extract_file EXCEPT !.pos = header.rd.pos]
                   /\ ex_take' = ex_take
                   /\ Fail(Err("IOError"))
              ELSE /\ extract_file' =
                        [extract_file EXCEPT !.pos = header.rd.pos + file_bytes_start_offset]
                   /\ IF Entry.encryption_method = "Aes"
                      THEN ex_take' = ex_take /\ Fail(Err("UnsupportedEncryption"))
                      ELSE /\ ex_take' = TakeLen(Entry,
                                  IF Entry.encryption_method = "ZipCrypto"
                                  THEN ZIP_CRYPTO_RANDOM_BYTES_LEN ELSE 0)
                           /\ ex_pc' = "HeaderRead"
                           /\ ex_result' = ex_result
    /\ UNCHANGED <<runInputs, fs, stdout, ex_idx, ex_zip_crypto, ex_consumer_in,
                   ex_crc32, run_result>>
    /\ UNCHANGED notExtractVars

\* The reader takes the salt from the source before the password is asked for.
SetupReader_salt_before_password ==
    /\ run_result.kind = "None"
    /\ ex_pc = "HeaderRead"
    /\ IF Entry.encryption_method = "NoEncryption"
       THEN /\ ex_pc' = "Decompressing"
            /\ UNCHANGED <<extract_file, ex_take, ex_zip_crypto, ex_reads, ex_result>>
       ELSE LET r == ZipCryptoReader_new(IF password = <<>> THEN <<>> ELSE password[1],
                                         Entry.crc32, TakeReader)
            IN  /\ extract_file' = [extract_file EXCEPT !.pos = r.reader.pos]
                /\ ex_take' = r.reader.limit
                /\ ex_reads' = ex_reads
                      \cup Positions(extract_file.pos, r.reader.pos - extract_file.pos)
                /\ IF password = <<>>
                   THEN /\ Fail(ErrCause("ZipCryptoError", "EmptyPassword"))
                        /\ ex_zip_crypto' = ex_zip_crypto
                   ELSE IF r.err # ""
                   THEN /\ Fail(ErrCause("ZipCryptoError", r.err))
                        /\ ex_zip_crypto' = ex_zip_crypto
                   ELSE /\ ex_zip_crypto' = r.zip_crypto
                        /\ ex_pc' = "Decrypting"
                        /\ ex_result' = ex_result
    /\ UNCHANGED <<runInputs, fs, stdout, ex_idx, ex_consumer_in, ex_crc32, run_result>>
    /\ UNCHANGED notExtractVars

\* The keys of the entry decrypted before are kept and the password is fed
\* on top of them.
ZipCryptoReader_new_keeps_keys(pass, file_crc32, reader) ==
    LET salt == read_exact(reader, ZIP_CRYPTO_RANDOM_BYTES_LEN)
        with_keys(zip_crypto) ==
            LET decoded == process_bytes(zip_crypto, salt.bytes)
            IN  IF ~salt.ok
                THEN [err |-> "IOError", reader |-> salt.rd, zip_crypto |-> zip_crypto,
                      random_bytes |-> <<>>]
                ELSE IF crc32_high_order_byte(file_crc32) # decoded.out[12]
                THEN [err |-> "IncorrectPassword", reader |-> salt.rd,
                      zip_crypto |-> decoded.z, random_bytes |-> decoded.out]
                ELSE [err |-> "", reader |-> salt.rd, zip_crypto |-> decoded.z,
                      random_bytes |-> decoded.out]
    IN  CHOOSE r \in {with_keys(zip_crypto) :
                         zip_crypto \in {update_keys_all(ex_zip_crypto, pass)}} : TRUE

\* The reader is built on the keys the entry before left behind.
SetupReader_keeps_keys ==
    /\ run_result.kind = "None"
    /\ ex_pc = "HeaderRead"
    /\ IF Entry.encryption_method = "NoEncryption"
       THEN /\ ex_pc' = "Decompressing"
            /\ UNCHANGED <<extract_file, ex_take, ex_zip_crypto, ex_reads, ex_result>>
       ELSE IF password = <<>>
       THEN /\ Fail(ErrCause("ZipCryptoError", "EmptyPassword"))
            /\ UNCHANGED <<extract_file, ex_take, ex_zip_crypto, ex_reads>>
       ELSE LET r == ZipCryptoReader_new_keeps_keys(password[1], Entry.crc32, TakeReader)
            IN  /\ extract_file' = [extract_file EXCEPT !.pos = r.reader.pos]
                /\ ex_take' = r.reader.limit
                /\ ex_reads' = ex_reads
                      \cup Positions(extract_file.pos, r.reader.pos - extract_file.pos)
                /\ IF r.err # ""
                   THEN /\ Fail(ErrCause("ZipCryptoError", r.err))
                        /\ ex_zip_crypto' = ex_zip_crypto
                   ELSE /\ ex_zip_crypto' = r.zip_crypto
                        /\ ex_pc' = "Decrypting"
                        /\ ex_result' = ex_result
    /\ UNCHANGED <<runInputs, fs, stdout, ex_idx, ex_consumer_in, ex_crc32, run_result>>
    /\ UNCHANGED notExtractVars

\* archive.rs:150-169: the reader the decoder will pull from.
SetupReader ==
    /\ run_result.kind = "None"
    /\ ex_pc = "HeaderRead"
    /\ IF Entry.encryption_method = "NoEncryption"
       THEN /\ ex_pc' = "Decompressing"
            /\ UNCHANGED <<extract_file, ex_take, ex_zip_crypto, ex_reads, ex_result>>
       ELSE IF password = <<>>
       THEN /\ Fail(ErrCause("ZipCryptoError", "EmptyPassword"))
            /\ UNCHANGED <<extract_file, ex_take, ex_zip_crypto, ex_reads>>
       ELSE LET r == ZipCryptoReader_new(password[1], Entry.crc32, TakeReader)
            IN  /\ extract_file' = [extract_file EXCEPT !.pos = r.reader.pos]
                /\ ex_take' = r.reader.limit
                /\ ex_reads' = ex_reads
                      \cup Positions(extract_file.pos, r.reader.pos - extract_file.pos)
                /\ IF r.err # ""
                   THEN /\ Fail(ErrCause("ZipCryptoError", r.err))
                        /\ ex_zip_crypto' = ex_zip_crypto
                   ELSE /\ ex_zip_crypto' = r.zip_crypto
                        /\ ex_pc' = "Decrypting"
                        /\ ex_result' = ex_result
    /\ UNCHANGED <<runInputs, fs, stdout, ex_idx, ex_consumer_in, ex_crc32, run_result>>
    /\ UNCHANGED notExtractVars

\* archive.rs:172: the decoder starts on the ZipCryptoReader.
StartDecode ==
    /\ run_result.kind = "None"
    /\ ex_pc = "Decrypting"
    /\ ex_pc' = "Decompressing"
    /\ UNCHANGED <<runInputs, extract_file, fs, stdout, ex_idx, ex_take, ex_zip_crypto,
                   ex_consumer_in, ex_crc32, ex_reads, ex_result, run_result>>
    /\ UNCHANGED notExtractVars

\* archive.rs:176: one read of std::io::copy, which pulls with Read::read,
\* and the write of what it returned.
CopyChunk ==
    /\ run_result.kind = "None"
    /\ ex_pc = "Decompressing"
    /\ Entry.compression_method = NoCompression
    /\ \E n \in 1..Min(MaxChunk, Available(TakeReader)) :
         LET zr == [reader |-> TakeReader, zip_crypto |-> ex_zip_crypto]
             got == IF Entry.encryption_method = "ZipCrypto"
                    THEN ZipCryptoReader_read(zr, n)
                    ELSE [bytes |-> reader_read(TakeReader, n).bytes,
                          zr |-> [zr EXCEPT !.reader = reader_read(TakeReader, n).rd]]
         IN  /\ extract_file' = [extract_file EXCEPT !.pos = got.zr.reader.pos]
             /\ ex_take' = got.zr.reader.limit
             /\ ex_zip_crypto' = got.zr.zip_crypto
             /\ ex_consumer_in' = ex_consumer_in \o got.bytes
             /\ ex_reads' = ex_reads \cup Positions(extract_file.pos, n)
             /\ fs' = File_write(fs, DestPath, got.bytes)
    /\ UNCHANGED <<runInputs, stdout, ex_idx, ex_pc, ex_crc32, ex_result, run_result>>
    /\ UNCHANGED notExtractVars

\* archive.rs:176-179: the copy ends when read returns 0; the checksum is
\* computed over the file read back.
CopyEnd ==
    /\ run_result.kind = "None"
    /\ ex_pc = "Decompressing"
    /\ Entry.compression_method = NoCompression
    /\ Available(TakeReader) = 0
    /\ ex_crc32' = Crc32Of(FileContents(fs, DestPath))
    /\ ex_pc' = "Verifying"
    /\ UNCHANGED <<runInputs, extract_file, fs, stdout, ex_idx, ex_take, ex_zip_crypto,
                   ex_consumer_in, ex_reads, ex_result, run_result>>
    /\ UNCHANGED notExtractVars

\* archive.rs:181-184, 204-234: the DeflateDecoder pulls with
\* BufRead::fill_buf and consume; what it decodes is written and summed.
InflateAll ==
    /\ run_result.kind = "None"
    /\ ex_pc = "Decompressing"
    /\ Entry.compression_method[1] = "Deflate"
    /\ LET zr == [reader |-> TakeReader, zip_crypto |-> ex_zip_crypto]
           buf == IF Entry.encryption_method = "ZipCrypto"
                  THEN ZipCryptoReader_fill_buf(zr)
                  ELSE SubSeqFrom(TakeReader.data, TakeReader.pos + 1, Available(TakeReader))
       IN  \E r \in InflateDecided(buf, inflate_opaque) :
             LET after == IF Entry.encryption_method = "ZipCrypto"
                          THEN ZipCryptoReader_consume(zr, r.used)
                          ELSE [zr EXCEPT !.reader = reader_read(TakeReader, r.used).rd]
             IN  /\ extract_file' = [extract_file EXCEPT !.pos = after.reader.pos]
                 /\ ex_take' = after.reader.limit
                 /\ ex_zip_crypto' = after.zip_crypto
                 /\ ex_consumer_in' = ex_consumer_in \o SubSeq(buf, 1, r.used)
                 /\ ex_reads' = ex_reads \cup Positions(extract_file.pos, r.used)
                 /\ fs' = File_write(fs, DestPath, r.out)
                 /\ IF r.err # ""
                    THEN ex_crc32' = ex_crc32 /\ Fail(Err(r.err))
                    ELSE /\ ex_crc32' = Crc32Of(r.out)
                         /\ ex_pc' = "Verifying"
                         /\ ex_result' = ex_result
    /\ UNCHANGED <<runInputs, stdout, ex_idx, run_result>>
    /\ UNCHANGED notExtractVars

\* The checksum comparison removes the destination file when it fails.
Verify_removes_file ==
    /\ run_result.kind = "None"
    /\ ex_pc = "Verifying"
    /\ IF ~Entry.is_dir /\ checksums_differ(Entry.crc32, ex_crc32)
       THEN /\ Fail(InvalidExtractedFile(Entry.crc32, ex_crc32))
            /\ fs' = [fs EXCEPT !.files = [f \in DOMAIN fs.files \ {Key(DestPath)} |->
                                              fs.files[f]]]
       ELSE ex_pc' = "Done" /\ ex_result' = Ok /\ fs' = fs
    /\ UNCHANGED <<runInputs, extract_file, stdout, ex_idx, ex_take, ex_zip_crypto,
                   ex_consumer_in, ex_crc32, ex_reads, run_result>>
    /\ UNCHANGED notExtractVars

\* archive.rs:187-200: the checksum comparison.
Verify ==
    /\ run_result.kind = "None"
    /\ ex_pc = "Verifying"
    /\ IF ~Entry.is_dir /\ checksums_differ(Entry.crc32, ex_crc32)
       THEN Fail(InvalidExtractedFile(Entry.crc32, ex_crc32))
       ELSE ex_pc' = "Done" /\ ex_result' = Ok
    /\ UNCHANGED <<runInputs, extract_file, fs, stdout, ex_idx, ex_take, ex_zip_crypto,
                   ex_consumer_in, ex_crc32, ex_reads, run_result>>
    /\ UNCHANGED notExtractVars

\* extract_items: the next entry after a success.
NextEntry ==
    /\ run_result.kind = "None"
    /\ ex_pc \in {"Done", "Created"}
    /\ ex_idx < Len(zip_files)
    /\ ex_idx' = ex_idx + 1
    /\ ex_pc' = "Pending"
    /\ ex_take' = 0
    /\ ex_consumer_in' = <<>>
    /\ ex_crc32' = <<0, 0>>
    /\ ex_reads' = {}
    /\ ex_result' = NoResult
    /\ UNCHANGED <<runInputs, extract_file, fs, stdout, ex_zip_crypto, run_result>>
    /\ UNCHANGED notExtractVars

\* extract_items: the run returns the first error, or the count.
FinishRun ==
    /\ run_result.kind = "None"
    /\ \/ /\ ex_pc = "Failed"
          /\ run_result' = ex_result
       \/ /\ ex_pc \in {"Done", "Created"}
          /\ ex_idx = Len(zip_files)
          /\ run_result' = [Ok EXCEPT !.count = Len(zip_files)]
    /\ UNCHANGED <<runInputs, extract_file, fs, stdout, ex_idx, ex_pc, ex_take,
                   ex_zip_crypto, ex_consumer_in, ex_crc32, ex_reads, ex_result>>
    /\ UNCHANGED notExtractVars

\* The finished run as the next one finds it.
RunLeft(kind) ==
    [kind |-> kind, result |-> run_result, fs |-> fs, pos |-> extract_file.pos,
     stdout |-> stdout]

\* A run's own state as extract_items starts.
StartRun ==
    /\ ex_idx' = 1
    /\ ex_pc' = "Pending"
    /\ ex_take' = 0
    /\ ex_zip_crypto' = ZipCrypto_new
    /\ ex_consumer_in' = <<>>
    /\ ex_crc32' = <<0, 0>>
    /\ ex_reads' = {}
    /\ ex_result' = NoResult
    /\ run_result' = NoResult
    /\ stdout' = <<>>

\* extract_items is called again with the same catalog, source, password
\* and destination; the destination is as the first run left it.
RunAgain ==
    /\ run_result.kind # "None"
    /\ ex_prev = NoRun
    /\ ex_prev' = RunLeft("Again")
    /\ StartRun
    /\ UNCHANGED <<runInputs, extract_file, fs>>
    /\ UNCHANGED notRunVars

\* extract_items is called with the other value of verbose on the same
\* catalog, source from its start, password and a destination as the first
\* run found it.
RunOtherVerbose ==
    /\ run_result.kind # "None"
    /\ ex_prev = NoRun
    /\ ex_prev' = RunLeft("OtherVerbose")
    /\ StartRun
    /\ verbose' = ~verbose
    /\ extract_file' = [extract_file EXCEPT !.pos = 0]
    /\ fs' = [dirs |-> {}, files |-> <<>>]
    /\ UNCHANGED <<zip_files, password, extract_path, inflate_opaque>>
    /\ UNCHANGED notRunVars

NextExtract ==
    \/ ExtractBegin
    \/ ReadLocalHeader
    \/ SetupReader
    \/ StartDecode
    \/ CopyChunk
    \/ CopyEnd
    \/ InflateAll
    \/ Verify
    \/ NextEntry
    \/ FinishRun


(***************************************************************************)
(* Inputs of the header operations: records laid out as a ZIP writer lays  *)
(* them out, with fields drawn from small sets.                            *)
(***************************************************************************)
le_u16(n) == <<n % 256, n \div 256>>
le_u32(a) == le_u16(a[2]) \o le_u16(a[1])
Filler(n) == [i \in 1..n |-> 238]

\* An end of central directory record: signature, disk numbers, the entry
\* counts, the central directory size and offset, the comment length.
EocdRecord(sign, count, offset) ==
    le_u32(sign) \o Zeros(4) \o le_u16(count) \o le_u16(count) \o Zeros(4)
        \o le_u32(offset) \o Zeros(2)

OtherSign == <<513, 19281>>   \* 0x02014b51
TrailerSigns == {EOF_CENTRAL_DIR_SIGN, CENTRAL_DIR_SIGN, <<20555, 1286>>}
TrailerCounts == {0, 1, 2, 255, 256, 257, 512, 65535}
TrailerOffsets == {<<0, 0>>, <<0, 32>>, <<258, 772>>, <<65535, 65535>>}
TrailerPrefixes == {<<>>, <<7>>, EocdRecord(EOF_CENTRAL_DIR_SIGN, 9, <<0, 9>>)}
ShortSources == {<<>>, <<80>>, SubSeq(EocdRecord(EOF_CENTRAL_DIR_SIGN, 1, <<0, 0>>), 1, 21)}
LocatorSources ==
    ShortSources
        \cup {p \o EocdRecord(s, c, o) :
                p \in TrailerPrefixes, s \in TrailerSigns, c \in TrailerCounts,
                o \in TrailerOffsets}

\* A central directory record described by its fields, followed by the name,
\* the extra field and the comment.
CentralRecord(f) ==
    le_u32(f.sign) \o <<f.version, f.env>> \o <<20, 0>> \o le_u16(f.flags)
        \o le_u16(f.method) \o le_u16(f.time) \o le_u16(f.date) \o le_u32(f.crc32)
        \o le_u32(f.compressed_size) \o le_u32(f.uncompressed_size)
        \o le_u16(f.name_len) \o le_u16(f.extra_len) \o le_u16(f.comment_len)
        \o Zeros(8) \o le_u32(f.offset)
        \o f.name \o Filler(f.extra_len) \o Filler(f.comment_len)

BaseRecord ==
    [sign |-> CENTRAL_DIR_SIGN, version |-> 20, env |-> 3, flags |-> 0, method |-> 8,
     time |-> 32028, date |-> 22923, crc32 |-> <<4386, 13124>>,
     compressed_size |-> <<0, 5>>, uncompressed_size |-> <<0, 7>>,
     name |-> NameA, name_len |-> 1, extra_len |-> 0, comment_len |-> 0,
     offset |-> <<0, 0>>]

RecordSigns == {CENTRAL_DIR_SIGN, OtherSign, EOF_CENTRAL_DIR_SIGN}
RecordVersions == {20, 30, 63, 21}
RecordEnvs == {0, 3, 19, 255, 1}
RecordMethods == {0, 8, 16, 2048}
FlagLowBits == 0..15
FlagHighBits == {0, 16, 32, 64, 128, 256, 512, 1024, 2048, 4096, 8192, 16384, 32768, 65520}
RecordFlags == {l + h : l \in FlagLowBits, h \in FlagHighBits}
RecordNames == {NameD, NameDA, <<255>>, <<195, 169>>, <<195>>, <<>>}

\* Records that fail one or several checks at once.
CheckRecords ==
    {[BaseRecord EXCEPT !.sign = s, !.version = v, !.env = e, !.method = m, !.flags = g] :
        s \in RecordSigns, v \in RecordVersions, e \in RecordEnvs, m \in RecordMethods,
        g \in {0, 9}}
\* Records that pass the checks, for every flag.
FlagRecords ==
    {[BaseRecord EXCEPT !.flags = g, !.method = m, !.env = e] :
        g \in RecordFlags, m \in {0, 8}, e \in {0, 3}}
\* Records with other names, extra fields and comments.
NameRecords ==
    {[BaseRecord EXCEPT !.name = n, !.name_len = Len(n), !.extra_len = x,
                        !.comment_len = c, !.method = m] :
        n \in RecordNames, x \in {0, 2}, c \in {0, 1}, m \in {0, 8, 16}}

ParserSources ==
    {[data |-> p \o CentralRecord(f), pos |-> Len(p)] :
        p \in {<<>>, <<7, 7, 7>>}, f \in CheckRecords \cup NameRecords}
      \cup {[data |-> CentralRecord(f), pos |-> 0] : f \in FlagRecords}
      \cup {[data |-> CentralRecord(f) \o CentralRecord(g), pos |-> 0] :
              f \in {r \in NameRecords : r.method = 8}, g \in {BaseRecord}}
      \cup {[data |-> SubSeq(CentralRecord(BaseRecord), 1, n), pos |-> 0] :
              n \in {0, 45, 46}}
      \cup {[data |-> CentralRecord([BaseRecord EXCEPT !.name_len = 2]), pos |-> 0]}

MaxRecords == 2     \* calls of ZipFile::from_readable on one source

\* Inputs of update_with_data_descriptor.
DescriptorOf(k) == [i \in 1..DATA_DESCRIPTOR_SIZE |-> 16 * k + i]
FlaggedEntry ==
    ZipFile_from_readable(
        [data |-> CentralRecord([BaseRecord EXCEPT !.flags = 8]), pos |-> 0]).zip_file
PlainEntry ==
    ZipFile_from_readable(
        [data |-> CentralRecord([BaseRecord EXCEPT !.method = 0]), pos |-> 0]).zip_file
DescriptorEntries == {FlaggedEntry, PlainEntry}
DescriptorData ==
    {DescriptorOf(1), <<9>> \o DescriptorOf(2) \o <<9>>,
     DescriptorOf(3) \o DescriptorOf(4), <<1, 2, 3>>}
DescriptorBoundaries(data) ==
    {FromInt(n) : n \in 0..(Len(data) + 1)}
        \cup {<<1, 0>>, <<32768, 12>>, <<65535, 65535>>}

\* Archives for the data descriptor pass: the entries one after the other
\* (local header, name, payload, data descriptor when flagged), the central
\* directory in the writer's order or in the reverse order, the trailer.
MaxEntries == 2     \* entries of an archive
LocalParams == [flagged : BOOLEAN, payload : {0, 1}]
RECURSIVE BuildBody(_, _, _)
BuildBody(params, data, offsets) ==
    IF params = <<>> THEN [data |-> data, offsets |-> offsets]
    ELSE LET p == Head(params)
             k == Len(offsets) + 1
         IN  BuildBody(Tail(params),
                       data \o LocalHeader(Len(NameA), 0) \o NameA
                            \o [i \in 1..p.payload |-> 65]
                            \o (IF p.flagged THEN DescriptorOf(k) ELSE <<>>),
                       Append(offsets, Len(data)))

RECURSIVE Concat(_)
Concat(seqs) == IF seqs = <<>> THEN <<>> ELSE Head(seqs) \o Concat(Tail(seqs))

ResolverArchive(params, reversed) ==
    LET n == Len(params)
        body == BuildBody(params, <<>>, <<>>)
        at(i) == IF reversed THEN n + 1 - i ELSE i
        record(i) ==
            CentralRecord([BaseRecord EXCEPT
                !.flags = IF params[at(i)].flagged THEN 8 ELSE 0,
                !.crc32 = <<0, at(i)>>,
                !.compressed_size = <<0, 0>>,
                !.uncompressed_size = <<0, 0>>,
                !.offset = FromInt(body.offsets[at(i)])])
    IN  body.data \o Concat([i \in 1..n |-> record(i)])
            \o EocdRecord(EOF_CENTRAL_DIR_SIGN, n, FromInt(Len(body.data)))

ResolverArchives ==
    {ResolverArchive(ps, r) :
        ps \in SeqsUpTo(LocalParams, MaxEntries) \ {<<>>}, r \in BOOLEAN}

(***************************************************************************)
(* EndOfCentralDirectory::from_readable.                                   *)
(***************************************************************************)
InitLocator ==
    /\ \E data \in LocatorSources : loc_readable = [data |-> data, pos |-> 0]
    /\ loc_result = NoEocdResult

\* headers.rs:194-234: the call; the cursor is left at the end of what the
\* last seek and read covered.
LocateEndOfCentralDirectory ==
    /\ loc_result.kind = "None"
    /\ loc_result' = EndOfCentralDirectory_from_readable(loc_readable.data)
    /\ loc_readable' = [loc_readable EXCEPT !.pos = Len(loc_readable.data)]
    /\ UNCHANGED notLocatorVars

NextLocator == LocateEndOfCentralDirectory

(***************************************************************************)
(* ZipFile::from_readable, called again after a success as the catalog     *)
(* does for the next record.                                               *)
(***************************************************************************)
InitParser ==
    /\ pr_readable \in ParserSources
    /\ pr_start = pr_readable.pos
    /\ pr_count = 0
    /\ pr_result = NoParseResult
    /\ pr_reads = <<>>

\* headers.rs:246-347
ParseRecord ==
    /\ pr_count < MaxRecords
    /\ pr_result.kind \in {"None", "Ok"}
    /\ LET r == ZipFile_from_readable(pr_readable)
       IN  /\ pr_result' = r
           /\ pr_readable' = [pr_readable EXCEPT !.pos = r.pos]
    /\ pr_reads' = pr_reads \o ZipFile_from_readable_reads(pr_readable)
    /\ pr_start' = pr_readable.pos
    /\ pr_count' = pr_count + 1
    /\ UNCHANGED notParserVars

NextParser == ParseRecord

(***************************************************************************)
(* ZipFile::update_with_data_descriptor.                                   *)
(***************************************************************************)
InitDescriptor ==
    /\ \E data \in DescriptorData :
         /\ dd_readable = [data |-> data, pos |-> 0]
         /\ dd_descriptor_end_index \in DescriptorBoundaries(data)
    /\ dd_before \in DescriptorEntries
    /\ dd_zip_file = dd_before
    /\ dd_outcome = DescriptorOutcome("None", 0, NoZipFile, 0, <<>>)

\* headers.rs:349-374, in a build with or without overflow checks.
UpdateWithDataDescriptor ==
    /\ dd_outcome.kind = "None"
    /\ \E overflow_checks \in BOOLEAN :
         LET o == update_with_data_descriptor(dd_zip_file, dd_readable,
                                              dd_descriptor_end_index, overflow_checks)
         IN  /\ dd_outcome' = o
             /\ dd_zip_file' = o.zip_file
             /\ dd_readable' = [dd_readable EXCEPT !.pos = o.pos]
    /\ UNCHANGED <<dd_descriptor_end_index, dd_before>>
    /\ UNCHANGED notDescriptorVars

NextDescriptor == UpdateWithDataDescriptor

(***************************************************************************)
(* The data descriptor pass over the parsed entries.                       *)
(***************************************************************************)
\* The records of the central directory, parsed one after the other.
RECURSIVE parse_entries(_, _, _)
parse_entries(src, count, parsed) ==
    IF count = 0 THEN [ok |-> TRUE, zip_files |-> parsed, pos |-> src.pos]
    ELSE LET r == ZipFile_from_readable(src)
         IN  IF r.kind # "Ok"
             THEN [ok |-> FALSE, zip_files |-> parsed, pos |-> r.pos]
             ELSE parse_entries([src EXCEPT !.pos = r.pos], count - 1,
                                Append(parsed, r.zip_file))

\* The boundary of entry i: the next entry's offset, or the central
\* directory's for the last entry.
descriptor_boundary(entries, i, central_dir_start_offset) ==
    IF i < Len(entries) THEN entries[i + 1].offset ELSE central_dir_start_offset

InitResolver ==
    /\ \E data \in ResolverArchives :
         LET eocd == EndOfCentralDirectory_from_readable(data)
             parsed == parse_entries(
                           [data |-> data, pos |-> ToInt(eocd.central_dir_start_offset)],
                           eocd.central_dir_size, <<>>)
         IN  /\ eocd.kind = "Ok"
             /\ parsed.ok
             /\ rs_readable = [data |-> data, pos |-> parsed.pos]
             /\ rs_central_dir_start_offset = eocd.central_dir_start_offset
             /\ rs_parsed = parsed.zip_files
    /\ rs_zip_files = rs_parsed
    /\ rs_index = 1
    /\ rs_status = "Running"

\* One entry of the pass: patched when it is flagged.
ResolveEntry ==
    /\ rs_status = "Running"
    /\ rs_index <= Len(rs_zip_files)
    /\ IF rs_zip_files[rs_index].data_descriptor_used
       THEN \E overflow_checks \in BOOLEAN :
              LET o == update_with_data_descriptor(
                           rs_zip_files[rs_index], rs_readable,
                           descriptor_boundary(rs_zip_files, rs_index,
                                               rs_central_dir_start_offset),
                           overflow_checks)
              IN  /\ rs_readable' = [rs_readable EXCEPT !.pos = o.pos]
                  /\ IF o.kind = "Ok"
                     THEN /\ rs_zip_files' = [rs_zip_files EXCEPT ![rs_index] = o.zip_file]
                          /\ rs_index' = rs_index + 1
                          /\ rs_status' = rs_status
                     ELSE /\ rs_status' = o.kind
                          /\ UNCHANGED <<rs_zip_files, rs_index>>
       ELSE /\ rs_index' = rs_index + 1
            /\ UNCHANGED <<rs_readable, rs_zip_files, rs_status>>
    /\ UNCHANGED <<rs_central_dir_start_offset, rs_parsed>>
    /\ UNCHANGED notResolverVars

\* The pass is over.
ResolveReturn ==
    /\ rs_status = "Running"
    /\ rs_index > Len(rs_zip_files)
    /\ rs_status' = "Done"
    /\ UNCHANGED <<rs_readable, rs_central_dir_start_offset, rs_parsed, rs_zip_files,
                   rs_index>>
    /\ UNCHANGED notResolverVars

NextResolver ==
    \/ ResolveEntry
    \/ ResolveReturn

(***************************************************************************)
(* Specifications.  Each component runs on its own state; the state of the *)
(* others stays at rest.                                                   *)
(***************************************************************************)
CryptoIdle ==
    /\ cr_password = <<>>
    /\ cr_file_crc32 = <<0, 0>>
    /\ cr_reader = Cursor_new(<<>>)
    /\ cr_zip_crypto = ZipCrypto_new
    /\ cr_random_bytes = <<>>
    /\ cr_result = "NotStarted"
    /\ cr_delivered = <<>>
    /\ cr_last = NoCall


ExtractIdle ==
    /\ zip_files = <<>>
    /\ extract_file = [data |-> <<>>, pos |-> 0]
    /\ password = <<>>
    /\ verbose = FALSE
    /\ extract_path = <<>>
    /\ inflate_opaque = [err |-> TRUE, out |-> <<>>]
    /\ fs = [dirs |-> {}, files |-> <<>>]
    /\ stdout = <<>>
    /\ ex_idx = 1
    /\ ex_pc = "Pending"
    /\ ex_take = 0
    /\ ex_zip_crypto = ZipCrypto_new
    /\ ex_consumer_in = <<>>
    /\ ex_crc32 = <<0, 0>>
    /\ ex_reads = {}
    /\ ex_result = NoResult
    /\ run_result = NoResult
    /\ ex_prev = NoRun

DateTimeIdle ==
    /\ dt_date = 0
    /\ dt_time = 0
    /\ dt_value = NoDateTime

RoundTripIdle ==
    /\ rt_password = <<>>
    /\ rt_plain = <<>>
    /\ rt_cipher = <<>>
    /\ rt_trail = <<ZipCrypto_new>>
    /\ rt_zip_crypto = ZipCrypto_new
    /\ rt_decoded = <<>>

KeysIdle ==
    /\ kz_password = <<>>
    /\ kz_fed = 0
    /\ kz_state = ZipCrypto_new
    /\ kz_byte = -1
    /\ RoundTripIdle

LocatorIdle ==
    /\ loc_readable = [data |-> <<>>, pos |-> 0]
    /\ loc_result = NoEocdResult

ParserIdle ==
    /\ pr_readable = [data |-> <<>>, pos |-> 0]
    /\ pr_start = 0
    /\ pr_count = 0
    /\ pr_result = NoParseResult
    /\ pr_reads = <<>>

DescriptorIdle ==
    /\ dd_readable = [data |-> <<>>, pos |-> 0]
    /\ dd_descriptor_end_index = <<0, 0>>
    /\ dd_before = NoZipFile
    /\ dd_zip_file = NoZipFile
    /\ dd_outcome = DescriptorOutcome("None", 0, NoZipFile, 0, <<>>)

ResolverIdle ==
    /\ rs_readable = [data |-> <<>>, pos |-> 0]
    /\ rs_central_dir_start_offset = <<0, 0>>
    /\ rs_parsed = <<>>
    /\ rs_zip_files = <<>>
    /\ rs_index = 1
    /\ rs_status = "Done"

HeadersIdle ==
    LocatorIdle /\ ParserIdle /\ DescriptorIdle /\ ResolverIdle /\ DateTimeIdle
       /\ KeysIdle

InitCrypto == InitCryptoSession /\ ExtractIdle /\ HeadersIdle
SpecCrypto == InitCrypto /\ [][NextCrypto]_vars

InitExtractRun == InitExtract /\ CryptoIdle /\ HeadersIdle
SpecExtract == InitExtractRun /\ [][NextExtract]_vars

\* Two runs one after the other into the same destination.
NextTwoRuns == NextExtract \/ RunAgain
SpecTwoRuns == InitExtractRun /\ [][NextTwoRuns]_vars

\* Two runs that differ in verbose only.
NextBothVerbose == NextExtract \/ RunOtherVerbose
SpecBothVerbose == InitExtractRun /\ [][NextBothVerbose]_vars

InitLocatorCall ==
    InitLocator /\ CryptoIdle /\ ExtractIdle /\ ParserIdle /\ DescriptorIdle /\ ResolverIdle
       /\ DateTimeIdle /\ KeysIdle
SpecLocator == InitLocatorCall /\ [][NextLocator]_vars

InitParserCalls ==
    InitParser /\ CryptoIdle /\ ExtractIdle /\ LocatorIdle /\ DescriptorIdle /\ ResolverIdle
       /\ DateTimeIdle /\ KeysIdle
SpecParser == InitParserCalls /\ [][NextParser]_vars

InitDescriptorCall ==
    InitDescriptor /\ CryptoIdle /\ ExtractIdle /\ LocatorIdle /\ ParserIdle /\ ResolverIdle
       /\ DateTimeIdle /\ KeysIdle
SpecDescriptor == InitDescriptorCall /\ [][NextDescriptor]_vars

InitResolverPass ==
    InitResolver /\ CryptoIdle /\ ExtractIdle /\ LocatorIdle /\ ParserIdle /\ DescriptorIdle
       /\ DateTimeIdle /\ KeysIdle
SpecResolver == InitResolverPass /\ [][NextResolver]_vars

(***************************************************************************)
(* Properties of the extraction pipeline and of the cipher.                *)
(***************************************************************************)
\* The bytes of the destination file of the entry being extracted.
WrittenBytes == FileContents(fs, DestPath)

\* The start of the entry's payload in the source: after the local header,
\* the name and the extra field.
PayloadStart ==
    LET at == ToInt(Entry.offset)
    IN  at + MIN_LOCAL_FILE_HEADER_SIZE + Len(Entry.file_name)
           + extract_file.data[at + 29] + 256 * extract_file.data[at + 30]

\* C1: for a non-directory entry extract returns Ok only if the CRC-32 of
\* the bytes written to the destination equals the entry's crc32, and when
\* they differ it returns InvalidExtractedFile carrying the declared and the
\* recomputed CRC-32, in that order.
C1_ExtractVerifiesCrc ==
    (~Entry.is_dir /\ ex_result.kind \in {"Ok", "InvalidExtractedFile"}) =>
        /\ (ex_result.kind = "Ok") = (Crc32Of(WrittenBytes) = Entry.crc32)
        /\ ex_result.kind = "InvalidExtractedFile" =>
              /\ ex_result.expected = Entry.crc32
              /\ ex_result.actual = Crc32Of(WrittenBytes)
              /\ ex_result.actual # ex_result.expected

\* An entry whose declared CRC-32 differs from that of the written bytes has
\* been refused.
C1_Witness ==
    /\ ~Entry.is_dir
    /\ ex_pc = "Failed"
    /\ ex_result.kind = "InvalidExtractedFile"
    /\ WrittenBytes # <<>>

\* C2: for an encrypted entry whose password check passed, the bytes handed
\* to the consumer (the Store copy or the inflater) are the payload bytes
\* after the salt, each decoded once and in order.
C2_ConsumerGetsDecodedBytes ==
    (/\ Entry.encryption_method = "ZipCrypto"
     /\ ~Entry.is_dir
     /\ ex_pc \in {"Decompressing", "Verifying", "Done"}) =>
        LET salted == [data |-> extract_file.data, pos |-> PayloadStart,
                       limit |-> Len(extract_file.data)]
            payload == SubSeqFrom(extract_file.data,
                                  PayloadStart + ZIP_CRYPTO_RANDOM_BYTES_LEN + 1,
                                  Len(ex_consumer_in))
        IN  \A opened \in {ZipCryptoReader_new(password[1], Entry.crc32, salted)} :
                ex_consumer_in = process_bytes(opened.zip_crypto, payload).out

\* C3: ZipCryptoReader::new on a reader with at least 12 bytes decodes the
\* first 12 bytes in order, returns Ok exactly when the 12th decoded byte is
\* the high-order byte of the entry's CRC-32 and IncorrectPassword otherwise,
\* and reads nothing beyond the salt; no byte is decoded after a refusal.
C3_PasswordCheck ==
    (cr_result # "NotStarted" /\ Len(cr_reader.data) >= ZIP_CRYPTO_RANDOM_BYTES_LEN) =>
        LET salt == SubSeq(cr_reader.data, 1, ZIP_CRYPTO_RANDOM_BYTES_LEN)
        IN  /\ \A keys \in {update_keys_all(ZipCrypto_new, cr_password)} :
                   cr_random_bytes = process_bytes(keys, salt).out
            /\ (cr_password = PasswordTest /\ salt = TestSalt) =>
                  cr_random_bytes = <<21, 47, 22, 129, 157, 114, 242, 251, 81, 97, 234, 85>>
            /\ cr_result \in {"Ok", "IncorrectPassword"}
            /\ (cr_result = "Ok") = (cr_random_bytes[12] = cr_file_crc32[1] \div 256)
            /\ cr_result = "IncorrectPassword" =>
                  /\ cr_reader.pos = ZIP_CRYPTO_RANDOM_BYTES_LEN
                  /\ cr_delivered = <<>>
            /\ cr_delivered = <<>> => cr_reader.pos = ZIP_CRYPTO_RANDOM_BYTES_LEN

\* The salt of the repository's test is accepted with its password.
C3_Witness ==
    /\ cr_result = "Ok"
    /\ cr_password = PasswordTest
    /\ SubSeq(cr_reader.data, 1, ZIP_CRYPTO_RANDOM_BYTES_LEN) = TestSalt
    /\ cr_random_bytes[12] = 85

\* C4 as stated: process_byte returns the input byte XOR the keystream byte
\* and advances the keys with the input (ciphertext) byte.
C4_KeysAdvanceWithCiphertext ==
    cr_last.valid =>
        /\ cr_last.out = Xor8(cr_last.in, stream_byte(cr_last.before))
        /\ cr_last.after = update_keys(cr_last.before, cr_last.in)

\* C4 as amended: process_byte returns the input byte XOR the keystream byte
\* and advances the keys with the byte it returns (the recovered plaintext).
C4_KeysAdvanceWithPlaintext ==
    cr_last.valid =>
        /\ cr_last.out = Xor8(cr_last.in, stream_byte(cr_last.before))
        /\ cr_last.after = update_keys(cr_last.before, cr_last.out)

\* A payload byte was decoded to a different byte.
C4_Witness ==
    /\ cr_last.valid
    /\ cr_delivered # <<>>
    /\ cr_last.in # cr_last.out
    /\ cr_last.out = cr_delivered[Len(cr_delivered)]

(***************************************************************************)
(* Properties of the header operations.                                    *)
(***************************************************************************)
\* Byte i, counted from 0, of the last 22 bytes of the locator's source.
TrailerByte(i) ==
    loc_readable.data[Len(loc_readable.data) - MIN_EOF_CENTRAL_DIR_SIZE + i + 1]
\* The little-endian u32 at bytes i .. i+3 of those bytes, as <<hi, lo>>.
TrailerU32(i) ==
    <<TrailerByte(i + 2) + 256 * TrailerByte(i + 3),
      TrailerByte(i) + 256 * TrailerByte(i + 1)>>

\* C5: the locator's result is decided by the source size and its last 22
\* bytes: size < 22 gives InvalidZipFile(size); else a signature other than
\* 0x06054b50 gives InvalidSignature(value), also when the count is zero;
\* else a zero count byte gives EmptyZipFile; else the count is byte 10 and
\* the offset the little-endian u32 at bytes 16..20.
C5_LocatorPrecedence ==
    loc_result.kind # "None" =>
        LET size == Len(loc_readable.data)
        IN  IF size < 22
            THEN loc_result.kind = "InvalidZipFile" /\ loc_result.size = size
            ELSE IF TrailerU32(0) # <<1541, 19280>>
            THEN loc_result.kind = "InvalidSignature" /\ loc_result.sign = TrailerU32(0)
            ELSE IF TrailerByte(10) = 0
            THEN loc_result.kind = "EmptyZipFile"
            ELSE /\ loc_result.kind = "Ok"
                 /\ loc_result.central_dir_size = TrailerByte(10)
                 /\ loc_result.central_dir_start_offset = TrailerU32(16)

\* A trailer with a wrong signature and a zero count was refused for its
\* signature.
C5_Witness ==
    /\ loc_result.kind = "InvalidSignature"
    /\ TrailerByte(10) = 0
    /\ loc_result.sign = <<513, 19280>>

\* Byte i, counted from 0, of the record the last parser call began at.
RecordByte(i) == pr_readable.data[pr_start + i + 1]
RecordU16(i) == RecordByte(i) + 256 * RecordByte(i + 1)
RecordU32(i) == <<RecordU16(i + 2), RecordU16(i)>>
\* The last call had the 46 bytes of a record to read.
RecordRead == pr_count > 0 /\ Len(pr_readable.data) - pr_start >= 46
\* The name the record declares is there and is UTF-8.
RecordNameRead ==
    /\ Len(pr_readable.data) - pr_start - 46 >= RecordU16(28)
    /\ is_utf8(SubSeqFrom(pr_readable.data, pr_start + 46 + 1, RecordU16(28)))

RecordDeflateBits == (RecordU16(8) \div 2) % 4

\* C7 as stated: for Deflate the bits 1-2 of the flag give the submode
\* 00 -> Normal, 01 -> Maximum, 10 -> Fast, 11 -> Normal; method 0 gives
\* NoCompression whatever the bits.
C7_SubmodeFallbackNormal ==
    (RecordRead /\ pr_result.kind = "Ok") =>
        pr_result.zip_file.compression_method =
            IF RecordU16(10) = 0 THEN <<"NoCompression">>
            ELSE <<"Deflate", CASE RecordDeflateBits = 0 -> "Normal"
                                [] RecordDeflateBits = 1 -> "Maximum"
                                [] RecordDeflateBits = 2 -> "Fast"
                                [] RecordDeflateBits = 3 -> "Normal">>

\* C7 as amended: 00 -> Normal, 01 -> Maximum, 10 -> Fast, 11 -> SuperFast;
\* method 0 gives NoCompression whatever the bits.
C7_SubmodeSuperFast ==
    (RecordRead /\ pr_result.kind = "Ok") =>
        pr_result.zip_file.compression_method =
            IF RecordU16(10) = 0 THEN <<"NoCompression">>
            ELSE <<"Deflate", CASE RecordDeflateBits = 0 -> "Normal"
                                [] RecordDeflateBits = 1 -> "Maximum"
                                [] RecordDeflateBits = 2 -> "Fast"
                                [] RecordDeflateBits = 3 -> "SuperFast">>

\* A Deflate record with both bits set was parsed.
C7_Witness ==
    /\ RecordRead
    /\ pr_result.kind = "Ok"
    /\ RecordU16(10) = 8
    /\ RecordDeflateBits = 3
    /\ pr_result.zip_file.compression_method = <<"Deflate", "SuperFast">>

\* C8: in a record that parses, is_encrypted is bit 0 of the flag and
\* data_descriptor_used is bit 3, whatever the other bits.
C8_FlagBits ==
    (RecordRead /\ pr_result.kind = "Ok") =>
        /\ pr_result.zip_file.is_encrypted = (RecordU16(8) % 2 = 1)
        /\ pr_result.zip_file.data_descriptor_used = ((RecordU16(8) \div 8) % 2 = 1)

\* A record with bit 3 and higher bits set and bit 0 clear was parsed.
C8_Witness ==
    /\ RecordRead
    /\ pr_result.kind = "Ok"
    /\ RecordU16(8) = 65528
    /\ pr_result.zip_file.data_descriptor_used
    /\ ~pr_result.zip_file.is_encrypted

\* The little-endian u32 at bytes at .. at+3, counted from 0, of data.
U32At(data, at) ==
    <<data[at + 3] + 256 * data[at + 4], data[at + 1] + 256 * data[at + 2]>>
\* An entry with the three descriptor fields taken at boundary - 12.
Patched(zip_file, data, boundary) ==
    [zip_file EXCEPT !.crc32 = U32At(data, boundary - 12),
                     !.compressed_size = U32At(data, boundary - 8),
                     !.uncompressed_size = U32At(data, boundary - 4)]
\* The 12 bytes before the boundary are in the source.
DescriptorInSource(data, boundary) ==
    /\ boundary[1] < 32768
    /\ ToInt(boundary) >= 12
    /\ ToInt(boundary) <= Len(data)

\* C9: update_with_data_descriptor reads the 12 bytes before the boundary
\* and sets crc32, compressed_size and uncompressed_size to the
\* little-endian u32 at descriptor bytes 0..4, 4..8 and 8..12; every other
\* field of the entry is unchanged.
C9_DescriptorUpdate ==
    dd_outcome.kind # "None" =>
        /\ DescriptorInSource(dd_readable.data, dd_descriptor_end_index) =>
              /\ dd_outcome.kind = "Ok"
              /\ dd_zip_file =
                    Patched(dd_before, dd_readable.data, ToInt(dd_descriptor_end_index))
              /\ dd_readable.pos = ToInt(dd_descriptor_end_index)
        /\ dd_outcome.kind = "Ok" =>
              DescriptorInSource(dd_readable.data, dd_descriptor_end_index)
        /\ dd_outcome.kind # "Ok" => dd_zip_file = dd_before

\* An entry was patched from a descriptor that does not start the source.
C9_Witness ==
    /\ dd_outcome.kind = "Ok"
    /\ ToInt(dd_descriptor_end_index) = 13
    /\ dd_zip_file.crc32 = <<9251, 8737>>
    /\ dd_zip_file.compressed_size # dd_zip_file.uncompressed_size
    /\ dd_zip_file.crc32 # dd_before.crc32

\* The boundary of entry j of the parsed list.
BoundaryOf(j) ==
    IF j < Len(rs_parsed) THEN rs_parsed[j + 1].offset ELSE rs_central_dir_start_offset

\* C10: the pass patches an entry only if it is flagged, from the next
\* entry's offset or from the central directory's offset for the last entry;
\* an entry without the flag keeps crc32, compressed_size and
\* uncompressed_size as parsed, and the order of the entries is unchanged.
C10_ResolverPass ==
    /\ Len(rs_zip_files) = Len(rs_parsed)
    /\ \A j \in 1..Len(rs_parsed) :
         /\ rs_zip_files[j].offset = rs_parsed[j].offset
         /\ rs_zip_files[j].file_name = rs_parsed[j].file_name
         /\ ~rs_parsed[j].data_descriptor_used => rs_zip_files[j] = rs_parsed[j]
         /\ j >= rs_index => rs_zip_files[j] = rs_parsed[j]
         /\ (rs_parsed[j].data_descriptor_used /\ j < rs_index) =>
               /\ DescriptorInSource(rs_readable.data, BoundaryOf(j))
               /\ rs_zip_files[j] =
                     Patched(rs_parsed[j], rs_readable.data, ToInt(BoundaryOf(j)))

\* A pass over two entries ended with the first one patched from the
\* descriptor before the second entry, which is not flagged.
C10_Witness ==
    /\ rs_status = "Done"
    /\ Len(rs_parsed) = 2
    /\ rs_parsed[1].data_descriptor_used
    /\ ~rs_parsed[2].data_descriptor_used
    /\ rs_zip_files[1].crc32 = <<5139, 4625>>
    /\ rs_zip_files[2] = rs_parsed[2]

\* C11: a seek or read failure while a data descriptor is resolved comes
\* back to the caller as an error result: update_with_data_descriptor never
\* ends the process, neither by exit nor by a panic.
C11_FailureIsTypedResult == dd_outcome.kind \notin {"Exit", "Panic"}

\* C12: within one run the entries are extracted in catalog order, one after
\* the other and each only after the one before it succeeded; once an
\* entry's extraction has failed nothing more happens to the source, the
\* destination or the entry index, and the run returns exactly that entry's
\* error (for a checksum mismatch: the entry's CRC-32 and the computed one).
C12_FailFastInOrder ==
    [][/\ ex_idx' \in {ex_idx, ex_idx + 1}
       /\ ex_idx' = ex_idx + 1 => (ex_pc \in {"Done", "Created"} /\ ex_result = Ok)
       /\ ex_pc = "Failed" =>
            /\ ex_pc' = "Failed"
            /\ ex_idx' = ex_idx
            /\ ex_result' = ex_result
            /\ extract_file' = extract_file
            /\ fs' = fs
            /\ ex_reads' = ex_reads
       /\ run_result'.kind \notin {"None", "Ok"} =>
            /\ ex_pc' = "Failed"
            /\ run_result' = ex_result'
            /\ run_result'.kind = "InvalidExtractedFile" =>
                 /\ run_result'.expected = zip_files'[ex_idx'].crc32
                 /\ run_result'.actual = ex_crc32'
                 /\ run_result'.actual =
                        Crc32Of(FileContents(fs', ExtractedFilePath(extract_path',
                                                                    zip_files'[ex_idx'])))
       /\ run_result'.kind = "Ok" => (ex_idx' = Len(zip_files') /\ ex_result' = Ok)
      ]_vars

\* The first of two entries failed its checksum; the run returned that error
\* and the second entry's file was never created.
C12_Witness ==
    /\ Len(zip_files) = 2
    /\ ex_idx = 1
    /\ run_result.kind = "InvalidExtractedFile"
    /\ run_result = ex_result
    /\ ~IsFile(fs, Key(ExtractedFilePath(extract_path, zip_files[2])))
    /\ ex_reads \subseteq 0..(ToInt(zip_files[2].offset) - 1)

\* C13: for a directory entry extract creates the directory with its missing
\* ancestors and returns Ok (an I/O error when a file is in the way) and does
\* nothing else: the source is neither sought nor read, no file is created,
\* no password is asked for even when the entry is flagged encrypted, no
\* checksum is computed, and no later stage of extract is entered.
C13_DirectoryEntry ==
    [][/\ (ex_pc = "Pending" /\ Entry.is_dir) =>
            /\ extract_file' = extract_file
            /\ ex_reads' = {}
            /\ fs'.files = fs.files
            /\ ex_crc32' = ex_crc32
            /\ ex_take' = ex_take
            /\ ex_zip_crypto' = ex_zip_crypto
            /\ IF \A a \in KeyAncestors(Key(DestPath)) : ~IsFile(fs, a)
               THEN /\ ex_pc' = "Created"
                    /\ ex_result' = Ok
                    /\ fs'.dirs = fs.dirs \cup KeyAncestors(Key(DestPath))
               ELSE /\ ex_pc' = "Failed"
                    /\ ex_result' = Err("IOError")
                    /\ fs' = fs
       /\ Entry.is_dir => ex_pc \in {"Pending", "Created", "Failed"}
       /\ ex_pc = "Created" =>
            /\ Entry.is_dir
            /\ ex_pc' \in {"Created", "Pending"}
            /\ ex_pc' = "Pending" => ex_idx' = ex_idx + 1
      ]_vars

\* A directory entry flagged encrypted was extracted without a password: the
\* directory and the destination directory above it exist, nothing was read.
C13_Witness ==
    /\ Entry.is_dir
    /\ Entry.encryption_method = "ZipCrypto"
    /\ password = <<>>
    /\ ex_pc = "Created"
    /\ ex_result = Ok
    /\ Key(DestPath) \in fs.dirs
    /\ Key(BaseDir) \in fs.dirs
    /\ Key(DestPath) # Key(BaseDir)
    /\ fs.files = <<>>
    /\ ex_reads = {}
    /\ extract_file.pos = 0

\* The positions of the source that hold the entry's local file header.
LocalHeaderPositions == Positions(ToInt(Entry.offset), MIN_LOCAL_FILE_HEADER_SIZE)

AfterFileCreate ==
    /\ ~Entry.is_dir
    /\ \/ ex_pc \in {"FileCreated", "HeaderRead", "Decrypting", "Decompressing", "Verifying"}
       \/ /\ ex_pc = "Failed"
          /\ \/ ex_result.kind \in {"UnsupportedEncryption", "ZipCryptoError",
                                    "DeflateDecodingError", "InvalidExtractedFile"}
             \/ ex_result.kind = "IOError" /\ ex_reads # {}

\* C15: from File::create on, through every later stage and every failure
\* of a non-directory entry (header read error, EmptyPassword,
\* IncorrectPassword, UnsupportedEncryption, deflate error, checksum
\* mismatch), the destination file exists, and no step of a run removes a
\* file or shortens one that the failing entry wrote.
C15_FailedFileStays ==
    [][/\ AfterFileCreate => IsFile(fs, Key(DestPath))
       /\ AfterFileCreate' => IsFile(fs', Key(DestPath'))
       /\ \A k \in DOMAIN fs.files : k \in DOMAIN fs'.files
       /\ ex_pc' = "Failed" =>
            (IsFile(fs, Key(DestPath)) =>
                /\ IsFile(fs', Key(DestPath))
                /\ Len(FileContents(fs', DestPath)) >= Len(FileContents(fs, DestPath)))
      ]_vars


\* A checksum mismatch was returned and the bytes written before it are
\* still in the destination file.
C15_Witness ==
    /\ ~Entry.is_dir
    /\ ex_pc = "Failed"
    /\ ex_result.kind = "InvalidExtractedFile"
    /\ run_result = ex_result
    /\ IsFile(fs, Key(DestPath))
    /\ WrittenBytes # <<>>

\* C16: a second run of extract over the same entries, source, password
\* and destination starts each file empty again (File::create truncates)
\* and ends with the result of the first run and the same directories and
\* file contents.
C16_RunAgainSame ==
    ex_prev.kind = "Again" =>
        /\ (ex_pc = "FileCreated" => WrittenBytes = <<>>)
        /\ (run_result.kind # "None" =>
              /\ run_result = ex_prev.result
              /\ fs = ex_prev.fs)

\* The second run has ended over a file that the first run had written,
\* and found the checksum right again.
C16_Witness ==
    /\ ex_prev.kind = "Again"
    /\ run_result.kind = "Ok"
    /\ run_result = ex_prev.result
    /\ ~Entry.is_dir
    /\ WrittenBytes # <<>>
    /\ ex_prev.fs.files[Key(DestPath)] = WrittenBytes

(***************************************************************************)
(* ZipDateTime::from_bytes on its own.                                     *)
(***************************************************************************)
\* The packed date and time of the test of date_time.rs.
TestDate == 22329   \* 0x5739
TestTime == 42863   \* 0xA76F

\* Every 16-bit date with the test's time, and every 16-bit time with the
\* test's date: from_bytes takes the date fields from the date alone and
\* the time fields from the time alone.
InitDateTime ==
    /\ \/ dt_date \in 0..65535 /\ dt_time = TestTime
       \/ dt_date = TestDate /\ dt_time \in 0..65535
    /\ dt_value = NoDateTime

FromBytes ==
    /\ dt_value = NoDateTime
    /\ dt_value' = ZipDateTime_from_bytes(dt_date, dt_time)
    /\ UNCHANGED <<dt_date, dt_time>>
    /\ UNCHANGED notDateTimeVars

NextDateTime == FromBytes

InitDateTimeCall ==
    InitDateTime /\ CryptoIdle /\ ExtractIdle /\ LocatorIdle /\ ParserIdle
       /\ DescriptorIdle /\ ResolverIdle /\ KeysIdle
SpecDateTime == InitDateTimeCall /\ [][NextDateTime]_vars

\* C17: from_bytes returns day = bits 0-4 of the date, month = bits 5-8,
\* year = 1980 + bits 9-15, second = twice bits 0-4 of the time, minute =
\* bits 5-10, hour = bits 11-15, each in full (no field wraps in its u8 or
\* u16), and 0x5739, 0xA76F give 2023-09-25 20:59:30.
C17_FromBytesFields ==
    dt_value # NoDateTime =>
        /\ dt_value.day = dt_date % 32
        /\ dt_value.month = (dt_date \div 32) % 16
        /\ dt_value.year = 1980 + dt_date \div 512
        /\ dt_value.second = 2 * (dt_time % 32)
        /\ dt_value.min = (dt_time \div 32) % 64
        /\ dt_value.hour = dt_time \div 2048
        /\ (dt_date = TestDate /\ dt_time = TestTime) =>
              dt_value = [day |-> 25, month |-> 9, year |-> 2023,
                          second |-> 30, min |-> 59, hour |-> 20]

\* from_bytes was called on the largest date and decoded the test's time.
C17_Witness ==
    /\ dt_date = 65535
    /\ dt_time = TestTime
    /\ dt_value = [day |-> 31, month |-> 15, year |-> 2107,
                   second |-> 30, min |-> 59, hour |-> 20]

\* The paths of the entries a run has begun, in order.
PathsBegun ==
    [i \in 1..ex_idx |-> ExtractedFilePath(extract_path, zip_files[i])]

\* C18: two runs over the same entries, source, password and an equal
\* destination that differ in verbose only end with the same result, the
\* same source cursor and the same directories and files; the verbose run
\* prints one line for each entry it began and the other prints nothing.
C18_VerboseOnlyPrints ==
    (ex_prev.kind = "OtherVerbose" /\ run_result.kind # "None") =>
        /\ run_result = ex_prev.result
        /\ extract_file.pos = ex_prev.pos
        /\ fs = ex_prev.fs
        /\ IF verbose
           THEN stdout = PathsBegun /\ ex_prev.stdout = <<>>
           ELSE stdout = <<>> /\ ex_prev.stdout = PathsBegun

\* A quiet run and then a verbose run of a two-entry archive ended alike
\* after writing a file; only the verbose one printed.
C18_Witness ==
    /\ ex_prev.kind = "OtherVerbose"
    /\ verbose
    /\ Len(zip_files) = 2
    /\ run_result.kind # "None"
    /\ run_result = ex_prev.result
    /\ fs = ex_prev.fs
    /\ fs.files # <<>>
    /\ extract_file.pos = ex_prev.pos
    /\ extract_file.pos > 0
    /\ Len(stdout) = 2
    /\ ex_prev.stdout = <<>>

\* The stage of the state machine an entry is in: waiting for the local
\* header covers the creation of the destination file.
StageOf(pc) == IF pc = "FileCreated" THEN "Pending" ELSE pc

\* The stages that may follow a stage within one entry.
StagesAfter(stage) ==
    CASE stage = "Pending"       -> {"Created", "HeaderRead", "Failed"}
      [] stage = "HeaderRead"    -> {"Decrypting", "Decompressing", "Failed"}
      [] stage = "Decrypting"    -> {"Decompressing", "Failed"}
      [] stage = "Decompressing" -> {"Verifying", "Failed"}
      [] stage = "Verifying"     -> {"Done", "Failed"}
      [] OTHER                   -> {}

\* C19: an entry moves Pending -> Created (a directory) or Pending ->
\* HeaderRead -> (Decrypting ->) Decompressing -> Verifying -> Done, any
\* stage may go to Failed, and no stage is entered twice.  Done is entered
\* only from Verifying with the computed CRC-32 equal to the entry's,
\* Decrypting is passed exactly by the encrypted entries, before
\* Decompressing, Created is entered only by directories, Failed is never
\* left, and Done and Created are left only for the next entry.
C19_StateMachine ==
    [][/\ (ex_idx' = ex_idx /\ StageOf(ex_pc') # StageOf(ex_pc)) =>
             StageOf(ex_pc') \in StagesAfter(StageOf(ex_pc))
       /\ ex_idx' # ex_idx =>
             /\ ex_idx' = ex_idx + 1
             /\ ex_pc \in {"Done", "Created"}
             /\ ex_pc' = "Pending"
       /\ (ex_pc' = "Done" /\ ex_pc # "Done") =>
             /\ ex_pc = "Verifying"
             /\ ex_crc32' = Entry.crc32
             /\ ex_result' = Ok
       /\ (ex_pc' = "Created" /\ ex_pc # "Created") => Entry.is_dir
       /\ ex_pc = "Decrypting" => Entry.encryption_method = "ZipCrypto"
       /\ (ex_pc' = "Decompressing" /\ ex_pc # "Decompressing") =>
             ex_pc = IF Entry.encryption_method = "ZipCrypto"
                     THEN "Decrypting" ELSE "HeaderRead"
       /\ ex_pc = "Failed" => ex_pc' = "Failed" /\ ex_idx' = ex_idx
       /\ ex_pc' = "Failed" => ex_result'.kind \notin {"None", "Ok"}
      ]_vars

\* An encrypted entry, having passed Decrypting, was verified and is Done.
C19_Witness ==
    /\ ex_pc = "Done"
    /\ ~Entry.is_dir
    /\ Entry.encryption_method = "ZipCrypto"
    /\ ex_crc32 = Entry.crc32
    /\ ex_result = Ok
    /\ ex_consumer_in # <<>>
    /\ ex_idx = 2

\* The length of the entry's payload in the source: the stored or the
\* compressed size, and the salt of an encrypted entry.
PayloadLen ==
    (IF Entry.compression_method = NoCompression
     THEN ToInt(Entry.uncompressed_size) ELSE ToInt(Entry.compressed_size))
      + (IF Entry.encryption_method = "ZipCrypto" THEN 12 ELSE 0)

\* C20: once an entry's local header is read, the reader given to the
\* cipher, the copy and the inflater starts at the payload start and is
\* limited to exactly L bytes (L = uncompressed_size for Store,
\* compressed_size for Deflate, plus 12 for ZipCrypto): what is left of the
\* limit and what was consumed add up to L, and beside the local header no
\* source position outside the L bytes from the payload start is ever read.
C20_TakeBound ==
    (~Entry.is_dir /\ LocalHeaderPositions \subseteq ex_reads) =>
        /\ ex_reads \subseteq LocalHeaderPositions \cup Positions(PayloadStart, PayloadLen)
        /\ ex_pc \in {"HeaderRead", "Decrypting", "Decompressing", "Verifying", "Done"} =>
              /\ extract_file.pos >= PayloadStart
              /\ extract_file.pos - PayloadStart + ex_take = PayloadLen

\* The Store copy of the first of two entries has taken all L bytes and
\* stopped in front of the next entry's local header.
C20_Witness ==
    /\ ex_idx = 1
    /\ Len(zip_files) = 2
    /\ ~Entry.is_dir
    /\ ex_pc = "Verifying"
    /\ PayloadLen > 0
    /\ ex_take = 0
    /\ extract_file.pos = PayloadStart + PayloadLen
    /\ extract_file.pos = ToInt(zip_files[2].offset)
    /\ ex_reads = LocalHeaderPositions \cup Positions(PayloadStart, PayloadLen)

\* The declared lengths of the record the last call parsed.
RecordNameLen == RecordU16(28)
RecordExtraLen == RecordU16(30)
RecordCommentLen == RecordU16(32)

\* C21: a successful from_readable on a record at p leaves the cursor at
\* p + 46 + name_len + extra_len + comment_len; it has read the 46 bytes
\* and the name, each once and in order, and none of the extra or comment
\* bytes; the next call starts where it stopped, so over the calls no
\* position is read twice.
C21_CursorAfterRecord ==
    (pr_count > 0 /\ pr_result.kind = "Ok") =>
        /\ pr_readable.pos = pr_start + 46 + RecordNameLen + RecordExtraLen + RecordCommentLen
        /\ Len(pr_reads) >= 46 + RecordNameLen
        /\ \A i \in 1..(46 + RecordNameLen) :
              pr_reads[Len(pr_reads) - (46 + RecordNameLen) + i] = pr_start + i - 1
        /\ \A i \in 1..Len(pr_reads) :
              pr_reads[i] \notin Positions(pr_start + 46 + RecordNameLen,
                                           RecordExtraLen + RecordCommentLen)
        /\ \A i, j \in 1..Len(pr_reads) : i < j => pr_reads[i] < pr_reads[j]

\* The second record was parsed right behind a first one that had a name,
\* an extra field and a comment.
C21_Witness ==
    /\ pr_count = 2
    /\ pr_result.kind = "Ok"
    /\ pr_start = 46 + 3 + 2 + 1
    /\ pr_readable.pos = Len(pr_readable.data)
    /\ Len(pr_reads) = 46 + 3 + 46 + 1
    /\ pr_reads[46 + 3] = 48
    /\ pr_reads[46 + 3 + 1] = pr_start

(***************************************************************************)
(* ZipCrypto on its own: the key schedule and the keystream byte.          *)
(***************************************************************************)
MaxPassword == 3   \* password bytes fed to update_keys

\* Every one-byte password, and the passwords over a few bytes.
KeyPasswords ==
    {<<b>> : b \in 0..255}
        \cup UNION {[1..n -> {0, 101, 115, 116, 255}] : n \in 0..MaxPassword}

InitKeys ==
    /\ kz_password \in KeyPasswords
    /\ kz_fed = 0
    /\ kz_state = ZipCrypto_new
    /\ kz_byte = -1
    /\ RoundTripIdle

\* zip_crypto.rs:86-90: the next password byte goes through update_keys.
FeedPasswordByte ==
    /\ kz_fed < Len(kz_password)
    /\ kz_state' = update_keys(kz_state, kz_password[kz_fed + 1])
    /\ kz_fed' = kz_fed + 1
    /\ UNCHANGED <<kz_password, kz_byte, roundTripVars>>
    /\ UNCHANGED notKeysVars

NextKeys == FeedPasswordByte

InitKeySchedule ==
    InitKeys /\ CryptoIdle /\ ExtractIdle /\ LocatorIdle /\ ParserIdle
       /\ DescriptorIdle /\ ResolverIdle /\ DateTimeIdle
SpecKeys == InitKeySchedule /\ [][NextKeys]_vars

\* One step of the reflected CRC-32 division by 0xEDB88320 on <<hi, lo>>.
CrcShift(x) ==
    LET hi == x[1] \div 2
        lo == (x[2] \div 2) + (x[1] % 2) * 32768
    IN  IF x[2] % 2 = 1 THEN <<Xor16(hi, 60856), Xor16(lo, 33568)>> ELSE <<hi, lo>>

\* (crc >> 8) xor TABLE[(crc and 0xFF) xor b], by eight division steps
\* instead of the table.
CrcStepByDivision(crc, b) ==
    LET x0 == <<crc[1], Xor16(crc[2], b)>>
    IN  CHOOSE r \in {CrcShift(CrcShift(CrcShift(CrcShift(x4))))
                        : x4 \in {CrcShift(CrcShift(CrcShift(CrcShift(x0))))}} : TRUE

\* x * 0x08088405 + 1 mod 2^32, digit by digit in base 256.
Key1StepByDigits(x) ==
    LET d0 == x[2] % 256
        d1 == x[2] \div 256
        d2 == x[1] % 256
        d3 == x[1] \div 256
        col0 == d0 * 5
        col1 == d0 * 132 + d1 * 5
        col2 == d0 * 8 + d1 * 132 + d2 * 5
        col3 == d0 * 8 + d1 * 8 + d2 * 132 + d3 * 5
        low == col0 + 256 * col1 + 1
    IN  <<((low \div 65536) + col2 + 256 * col3) % 65536, low % 65536>>

\* The keys after the first n password bytes, by the claim's formulas.
RECURSIVE KeysByFormula(_, _)
KeysByFormula(pw, n) ==
    IF n = 0
    THEN [key0 |-> <<4660, 22136>>, key1 |-> <<9029, 26505>>, key2 |-> <<13398, 30864>>]
    ELSE CHOOSE r \in
           {LET key0 == CrcStepByDivision(z.key0, pw[n])
                sum == z.key1[2] + (key0[2] % 256)
                key1 == Key1StepByDigits(<<(z.key1[1] + sum \div 65536) % 65536,
                                           sum % 65536>>)
                key2 == CrcStepByDivision(z.key2, key1[1] \div 256)
            IN  [key0 |-> key0, key1 |-> key1, key2 |-> key2]
              : z \in {KeysByFormula(pw, n - 1)}} : TRUE

\* C22: the keys start at 0x12345678, 0x23456789, 0x34567890 and after
\* each password byte, taken in order, they are what the claim's formulas
\* give (key0 by the CRC step on the byte, key1 from the new key0's low
\* byte, times 0x08088405 plus 1 modulo 2^32, key2 by the CRC step on the
\* new key1's top byte); each key stays below 2^32, and an empty password
\* leaves the three constants.
C22_KeySchedule ==
    kz_byte = -1 =>
        /\ kz_state = KeysByFormula(kz_password, kz_fed)
        /\ \A k \in {kz_state.key0, kz_state.key1, kz_state.key2} :
              k[1] \in 0..65535 /\ k[2] \in 0..65535
        /\ kz_fed = 0 =>
              kz_state = [key0 |-> <<4660, 22136>>, key1 |-> <<9029, 26505>>,
                          key2 |-> <<13398, 30864>>]

\* The password "tes" was fed whole and none of the keys is the constant
\* it started from.
C22_Witness ==
    /\ kz_password = <<116, 101, 115>>
    /\ kz_fed = 3
    /\ kz_state.key0 # <<4660, 22136>>
    /\ kz_state.key1 # <<9029, 26505>>
    /\ kz_state.key2 # <<13398, 30864>>
    /\ kz_state = KeysByFormula(kz_password, 3)


\* Every low half of key2, under all-zero and all-one other bits.
StreamStates ==
    {[key0 |-> <<h, h>>, key1 |-> <<h, h>>, key2 |-> <<h, lo>>] :
        h \in {0, 65535}, lo \in 0..65535}

InitStream ==
    /\ kz_password = <<>>
    /\ kz_fed = 0
    /\ kz_state \in StreamStates
    /\ kz_byte = -1
    /\ RoundTripIdle

\* zip_crypto.rs:70-74: stream_byte takes &self.
CallStreamByte ==
    /\ kz_byte = -1
    /\ kz_byte' = stream_byte(kz_state)
    /\ UNCHANGED <<kz_password, kz_fed, kz_state, roundTripVars>>
    /\ UNCHANGED notKeysVars

NextStream == CallStreamByte

InitStreamByte ==
    InitStream /\ CryptoIdle /\ ExtractIdle /\ LocatorIdle /\ ParserIdle
       /\ DescriptorIdle /\ ResolverIdle /\ DateTimeIdle
SpecStream == InitStreamByte /\ [][NextStream]_vars

\* Bits 8..15 of the unbounded product t * u of two 16-bit values, from
\* their bytes: the product is t1*u1*2^16 + (t1*u0 + t0*u1)*2^8 + t0*u0.
ProductBits8To15(t, u) ==
    ((t \div 256) * (u % 256) + (t % 256) * (u \div 256) + ((t % 256) * (u % 256)) \div 256)
        % 256

\* C23: stream_byte leaves the keys as they are and returns bits 8..15 of
\* t * (t xor 1) for t = (key2 mod 2^16) or 3, the product taken without
\* wrapping; the byte is the one returned for the keys that have bits 2..15
\* of key2 and zeros everywhere else.
C23_KeystreamByte ==
    [][kz_byte' # kz_byte =>
         LET low == kz_state.key2[2]
             t == (low - (low % 4)) + 3
         IN  /\ kz_state' = kz_state
             /\ kz_byte' = ProductBits8To15(t, t - 1)
             /\ kz_byte' \in 0..255
             /\ kz_byte' = stream_byte([key0 |-> <<0, 0>>, key1 |-> <<0, 0>>,
                                        key2 |-> <<0, low - (low % 4)>>])
      ]_vars

\* stream_byte was called with key2 = 0xFFFFFFFF: t = 0xFFFF, t xor 1 =
\* 0xFFFE, the product 0xFFFD0002 does not fit 16 bits, the byte is 0.
C23_Witness ==
    /\ kz_state.key2 = <<65535, 65535>>
    /\ kz_byte = 0

\* The four source bytes at the entry's offset.
BytesAtOffset == SubSeqFrom(extract_file.data, ToInt(Entry.offset) + 1, 4)

\* C24: when extract has taken 30 bytes at the entry's offset as the local
\* header (it has the extra field length and the payload start from them
\* and reads the payload), those bytes begin with the local file header
\* signature 50 4B 03 04.
C24_OffsetAddressesSignature ==
    (~Entry.is_dir /\ ex_pc \in {"HeaderRead", "Decrypting", "Decompressing",
                                 "Verifying", "Done"}) =>
        BytesAtOffset = LOCAL_FILE_HEADER_SIGN

\* The source bytes of the entry's payload consumed so far.
PayloadConsumed ==
    SubSeqFrom(extract_file.data, PayloadStart + 1, extract_file.pos - PayloadStart)

\* C25: for every encrypted entry the keys and the decoded bytes are those
\* of a cipher started from the three constants and the password alone and
\* run over this entry's own ciphertext (the salt, and for Store the bytes
\* copied so far), whichever entries were decrypted before it; the reader
\* the inflater pulls from leaves the keys as they are after the salt; and
\* the password is refused exactly when the salt decoded that way does not
\* end in the top byte of the entry's CRC-32.
C25_FreshCipherPerEntry ==
    (~Entry.is_dir /\ Entry.encryption_method = "ZipCrypto" /\ password # <<>>
        /\ ex_pc \in {"Decrypting", "Decompressing", "Verifying", "Done", "Failed"}
        /\ extract_file.pos >= PayloadStart + ZIP_CRYPTO_RANDOM_BYTES_LEN) =>
        \A keys \in {update_keys_all(ZipCrypto_new, password[1])} :
          \A salt \in {process_bytes(keys, SubSeq(PayloadConsumed, 1,
                                                  ZIP_CRYPTO_RANDOM_BYTES_LEN))} :
            /\ (ex_result = ErrCause("ZipCryptoError", "IncorrectPassword"))
                  = (salt.out[ZIP_CRYPTO_RANDOM_BYTES_LEN] # Entry.crc32[1] \div 256)
            /\ ex_pc # "Failed" =>
                  IF Entry.compression_method = NoCompression
                  THEN \A fresh \in {process_bytes(keys, PayloadConsumed)} :
                          /\ ex_zip_crypto = fresh.z
                          /\ ex_consumer_in =
                                SubSeq(fresh.out, ZIP_CRYPTO_RANDOM_BYTES_LEN + 1,
                                       Len(fresh.out))
                  ELSE ex_zip_crypto = salt.z

\* The second of two encrypted entries was decrypted and verified after
\* the first.
C25_Witness ==
    /\ ex_idx = 2
    /\ zip_files[1].encryption_method = "ZipCrypto"
    /\ Entry.encryption_method = "ZipCrypto"
    /\ ex_pc = "Done"
    /\ ex_consumer_in = <<65>>
    /\ WrittenBytes = <<65>>
    /\ ex_zip_crypto # ZipCrypto_new

\* The key k lies in or below the directory of key d.
KeyInside(k, d) ==
    /\ k.abs = d.abs
    /\ Len(k.comps) >= Len(d.comps)
    /\ SubSeq(k.comps, 1, Len(d.comps)) = d.comps

\* C26: every file and directory a run creates lies in or below the
\* destination directory, and the path extract builds for an entry begins
\* with the destination directory, whatever the entry's name.
C26_CreatedInsideDestination ==
    /\ \A k \in (DOMAIN fs.files) \cup fs.dirs :
          KeyInside(k, Key(extract_path)) \/ KeyInside(Key(extract_path), k)
    /\ \A k \in DOMAIN fs.files : KeyInside(k, Key(extract_path))
    /\ (zip_files # <<>> /\ ex_pc # "Pending") =>
          /\ Len(DestPath) >= Len(extract_path)
          /\ SubSeq(DestPath, 1, Len(extract_path)) = extract_path

\* The 16-bit total-entries field of the trailer: bytes 10..11, little-endian.
TrailerTotalEntries == TrailerByte(10) + 256 * TrailerByte(11)

\* C27: for a trailer with the right signature the locator's entry count is
\* the 16-bit total-entries field, for every value 1..65535: a field with a
\* zero low byte is not refused as EmptyZipFile and a field above 255 is not
\* reduced modulo 256.
C27_CountIsTotalEntries ==
    (/\ loc_result.kind # "None"
     /\ Len(loc_readable.data) >= MIN_EOF_CENTRAL_DIR_SIZE
     /\ TrailerU32(0) = EOF_CENTRAL_DIR_SIGN
     /\ TrailerTotalEntries \in 1..65535) =>
        /\ loc_result.kind = "Ok"
        /\ loc_result.central_dir_size = TrailerTotalEntries

\* The u32 a is not above the u32 b.
U32AtMost(a, b) == a[1] < b[1] \/ (a[1] = b[1] /\ a[2] <= b[2])
\* C28: update_with_data_descriptor never computes a wrapped seek position:
\* for every boundary, those below 12 included, the subtraction of 12 does
\* not underflow, so the call neither panics nor seeks to an offset above
\* the boundary, near 2^32.
C28_SeekDoesNotUnderflow ==
    dd_outcome.kind # "None" =>
        /\ dd_outcome.kind # "Panic"
        /\ \A i \in 1..Len(dd_outcome.sought) :
              U32AtMost(dd_outcome.sought[i], dd_descriptor_end_index)

\* C29: after extract returned Ok for an entry that is not a directory, the
\* destination file holds exactly as many bytes as the entry's
\* uncompressed_size says, for a stored entry (also when the source ends
\* before the declared payload does) and for a deflated one.
C29_WrittenLengthIsDeclared ==
    (~Entry.is_dir /\ ex_result.kind = "Ok") =>
        Entry.uncompressed_size = FromInt(Len(WrittenBytes))

(***************************************************************************)
(* process_byte against a ZIP writer's encryptor.                          *)
(***************************************************************************)
MaxRoundTrip == 3   \* bytes the writer encrypts
RoundTripPasswords == {<<>>, PasswordTest, PasswordWrong}
RoundTripBytes == {0, 65, 255}

InitRoundTrip ==
    /\ rt_password \in RoundTripPasswords
    /\ rt_plain = <<>>
    /\ rt_cipher = <<>>
    /\ rt_trail = <<update_keys_all(ZipCrypto_new, rt_password)>>
    /\ rt_zip_crypto = update_keys_all(ZipCrypto_new, rt_password)
    /\ rt_decoded = <<>>
    /\ kz_password = <<>>
    /\ kz_fed = 0
    /\ kz_state = ZipCrypto_new
    /\ kz_byte = -1

\* The writer encrypts one more byte: c = p xor keystream byte, then
\* update_keys(p).
WriterEncryptByte ==
    /\ Len(rt_plain) < MaxRoundTrip
    /\ \E p \in RoundTripBytes :
         LET e == encrypt_byte(rt_trail[Len(rt_trail)], p)
         IN  /\ rt_plain' = Append(rt_plain, p)
             /\ rt_cipher' = Append(rt_cipher, e.out)
             /\ rt_trail' = Append(rt_trail, e.z)
    /\ UNCHANGED <<rt_password, rt_zip_crypto, rt_decoded>>
    /\ UNCHANGED <<kz_password, kz_fed, kz_state, kz_byte>>
    /\ UNCHANGED notKeysVars

\* zip_crypto.rs:76-81: the next stored byte goes through process_byte.
ReaderProcessByte ==
    /\ Len(rt_decoded) < Len(rt_cipher)
    /\ LET d == process_byte(rt_zip_crypto, rt_cipher[Len(rt_decoded) + 1])
       IN  /\ rt_decoded' = Append(rt_decoded, d.out)
           /\ rt_zip_crypto' = d.z
    /\ UNCHANGED <<rt_password, rt_plain, rt_cipher, rt_trail>>
    /\ UNCHANGED <<kz_password, kz_fed, kz_state, kz_byte>>
    /\ UNCHANGED notKeysVars

NextRoundTrip == WriterEncryptByte \/ ReaderProcessByte

InitRoundTripRun ==
    InitRoundTrip /\ CryptoIdle /\ ExtractIdle /\ LocatorIdle /\ ParserIdle
       /\ DescriptorIdle /\ ResolverIdle /\ DateTimeIdle
SpecRoundTrip == InitRoundTripRun /\ [][NextRoundTrip]_vars

\* C30: when a writer encrypts bytes from the password-initialised keys by
\* c = p xor keystream byte followed by update_keys(p), process_byte from
\* the same password-initialised keys returns the bytes the writer was
\* given, for every length, and after each byte the reader's keys are the
\* writer's keys after that byte.
C30_RoundTrip ==
    /\ Len(rt_decoded) <= Len(rt_plain)
    /\ rt_decoded = SubSeq(rt_plain, 1, Len(rt_decoded))
    /\ rt_zip_crypto = rt_trail[Len(rt_decoded) + 1]
    /\ rt_trail[1] = update_keys_all(ZipCrypto_new, rt_password)

\* Three bytes went through both sides under the password "test"; the
\* stored bytes differ from the given ones and the keys have moved.
C30_Witness ==
    /\ rt_password = PasswordTest
    /\ rt_plain = <<65, 0, 255>>
    /\ rt_decoded = rt_plain
    /\ rt_cipher # rt_plain
    /\ rt_zip_crypto = rt_trail[4]
    /\ rt_zip_crypto # rt_trail[1]
    /\ rt_trail[2] # rt_trail[3]

====
